---- MODULE Spec2Model ----
(***************************************************************************)
(* Model of the trading decision engine (src/engine.py, src/trader.py,     *)
(* src/db.py): startup reconciliation of the persisted position against   *)
(* the exchange, and the band-crossing state machine with its order and    *)
(* close calls.                                                            *)
(*                                                                         *)
(* Eight specifications share the definitions of the program: Spec (the   *)
(* engine from its construction, one evaluation per step), SpecCall (one   *)
(* call of the transition handler from every engine state Spec reaches,   *)
(* on prices on and around every line of the band), SpecFeed (the kline    *)
(* message loop, with ticks, bar closes and disconnects), SpecLoop (the    *)
(* consumer coroutine step by step, with the evaluations in flight),       *)
(* SpecLedger (the tables positions, trades and daily_profits under        *)
(* opens, closes, reconciliations and date changes), SpecBand (the band    *)
(* policies of src/indicators.py on every short sequence of bars),         *)
(* SpecBars (the klines table under bootstrap and the feed, with the       *)
(* fallback chain of the band) and SpecRetry (the close of a held          *)
(* position retried under a fair feed).                                    *)
(*                                                                         *)
(* Units: prices are whole USDT, balances are thousandths of a USDT,       *)
(* quantities are thousandths of a BTC (the 3 decimals the trader rounds   *)
(* to), times are milliseconds.                                            *)
(***************************************************************************)
EXTENDS Integers, Sequences, FiniteSets, TLC

\* ------------------------------------------------------------------ bounds
\* wall clock (ms) when the engine is constructed
StartMs == 60000
\* granularity of the modelled clock (ms)
StepMs == 30000
\* number of clock steps the model follows
MaxTicks == 3
\* largest number of clock steps between two evaluations
MaxDt == 2
\* longest sequence of bar closes tried to bring a state back to WAITING
ResetDepth == 5

\* largest number of messages waiting in the socket
MaxQueue == 3
\* largest number of rows of the trades table
MaxTrades == 3
\* last calendar date followed (the first is 0)
MaxDate == 1

\* number of bars of the rolling window of the band (config.BOLL_PERIOD,
\* 20 by default, scaled down)
Period == 3

\* number of bars the bar store is followed for
MaxBars == 3
\* number of klines of the initial fetch (config.INITIAL_KLINES, 100 by
\* default, scaled down)
InitialKlines == 2

EndMs == StartMs + MaxTicks * StepMs
Dates == 0..MaxDate

\* ------------------------------------------------------- program constants
\* Engine.trade_cooldown (ms)
trade_cooldown == 60000
\* least time between two throttled evaluations of _consume, 1.0 s (ms)
eval_throttle == 1000
\* minimum order quantity 0.001, in thousandths
MinQtyMilli == 1
\* config.TRADE_PERCENT = 0.7 as a fraction
TradePercentNum == 7
TradePercentDen == 10
\* config.FEE_RATE = 0.0005 as a fraction
FeeRateNum == 5
FeeRateDen == 10000
\* config.BOLL_STD = 2.0, the number of standard deviations of the band
BollStd == 2
\* config.INTERVAL = "15m": the number and the unit
IntervalNum == 15
IntervalUnit == "m"
\* Engine.price_threshold = 0.001 as a fraction, the one price-change
\* threshold the program configures
PriceThresholdNum == 1
PriceThresholdDen == 1000

\* ------------------------------------------------------------ engine states
STATE_WAITING == "waiting"
STATE_BREAKOUT_UP_WAIT_FALL == "breakout_up_wait_fall"
STATE_HOLDING_SHORT == "holding_short"
STATE_SHORT_STOP_LOSS_WAIT_FALL == "short_stop_loss_wait_fall"
STATE_SHORT_BELOW_MID_WAIT == "short_below_mid_wait"
STATE_SHORT_WAIT_PROFIT == "short_wait_profit"
STATE_SHORT_PROFIT_TAKEN == "short_profit_taken"
STATE_BREAKDOWN_DN_WAIT_BOUNCE == "breakdown_dn_wait_bounce"
STATE_HOLDING_LONG == "holding_long"
STATE_LONG_STOP_LOSS_WAIT_BOUNCE == "long_stop_loss_wait_bounce"
STATE_LONG_ABOVE_MID_WAIT == "long_above_mid_wait"
STATE_LONG_WAIT_PROFIT == "long_wait_profit"
STATE_LONG_PROFIT_TAKEN == "long_profit_taken"

AllStates ==
  { STATE_WAITING, STATE_BREAKOUT_UP_WAIT_FALL, STATE_HOLDING_SHORT,
    STATE_SHORT_STOP_LOSS_WAIT_FALL, STATE_SHORT_BELOW_MID_WAIT,
    STATE_SHORT_WAIT_PROFIT, STATE_SHORT_PROFIT_TAKEN,
    STATE_BREAKDOWN_DN_WAIT_BOUNCE, STATE_HOLDING_LONG,
    STATE_LONG_STOP_LOSS_WAIT_BOUNCE, STATE_LONG_ABOVE_MID_WAIT,
    STATE_LONG_WAIT_PROFIT, STATE_LONG_PROFIT_TAKEN }

\* the states in which the strategy holds a position
HoldingStates ==
  { STATE_HOLDING_SHORT, STATE_SHORT_BELOW_MID_WAIT, STATE_SHORT_WAIT_PROFIT,
    STATE_HOLDING_LONG, STATE_LONG_ABOVE_MID_WAIT, STATE_LONG_WAIT_PROFIT }

\* the states that wait for the signal to open a position
OpenWaitStates ==
  { STATE_BREAKOUT_UP_WAIT_FALL, STATE_SHORT_STOP_LOSS_WAIT_FALL,
    STATE_BREAKDOWN_DN_WAIT_BOUNCE, STATE_LONG_STOP_LOSS_WAIT_BOUNCE }

\* ------------------------------------------------------------------ inputs
\* close and tick prices: 0 (a feed message without a price), below the
\* lower band, between lower and middle, between middle and upper, above
Prices == {0, 94, 97, 103, 106}

\* tick prices: 0 (no tick seen yet), below the lower band, above the upper
TickPrices == {0, 94, 106}

\* the prices of the orders and closes applied to the store
LedgerPrices == {0, 100, 106}

\* the quantity of those orders, in thousandths
LedgerQty == 10

\* the prices of kline messages: those of the end-to-end scenario, and 0
FeedPrices == {0, 94, 96, 104, 106}

\* the band of an evaluation
Bands == { [dn |-> 95, mid |-> 100, up |-> 105] }

\* prices for one call of the transition handler: 0, and below, on and
\* between the lines of the band (95, 100, 105), and above
CallPrices == {0, 94, 95, 97, 100, 103, 105, 106}

\* bands for one call of the transition handler, lower <= middle <= upper:
\* three distinct lines, lines that coincide in pairs, a flat band (all
\* closes of the window equal)
CallBands ==
  { [dn |-> 95, mid |-> 100, up |-> 105],
    [dn |-> 100, mid |-> 100, up |-> 105],
    [dn |-> 95, mid |-> 100, up |-> 100],
    [dn |-> 100, mid |-> 100, up |-> 100] }

\* what futures_account() answers: ok = FALSE is a failed call
Accounts ==
  { [ok |-> FALSE, available |-> 0, wallet |-> 0],
    [ok |-> TRUE, available |-> 0, wallet |-> 1000000],
    [ok |-> TRUE, available |-> 5, wallet |-> 1000000],
    [ok |-> TRUE, available |-> 1000000, wallet |-> 1000000] }

\* what futures_create_order() does: it raises, or it answers with avgPrice
Gateways ==
  { [raises |-> TRUE, avgPrice |-> 0],
    [raises |-> FALSE, avgPrice |-> 0],
    [raises |-> FALSE, avgPrice |-> 101] }

\* config.LEVERAGE as read from the environment
Leverages == {0, 10}

\* the positions table row of the symbol; side "none" is the absent row
NoPosition == [side |-> "none", qty |-> 0, entry_price |-> 0]

\* rows the positions table can hold when the engine is constructed
StoredPositions ==
  { NoPosition,
    [side |-> "long", qty |-> 1000, entry_price |-> 100],
    [side |-> "short", qty |-> 1000, entry_price |-> 100] }

\* positionAmt of the symbol on the exchange (0: no position)
PositionAmts == {-1000, 0, 1000}

VARIABLES
  pc,               \* "boot" before Engine() ran, "ready" after it, then "run"
  state,            \* Engine.state
  position,         \* the positions table row of the symbol (db.py)
  last_trade_time,  \* Engine.last_trade_time
  now,              \* wall clock, ms
  client_ok,        \* Trader.client is not None
  leverage,         \* config.LEVERAGE
  boot,             \* record of what the constructor saw and did
  ev,               \* record of what the last evaluation did
  sent_at,          \* times of the last orders sent to the gateway
  call,             \* one call of the transition handler: inputs and result
  feed,             \* Engine.last_price, the close of the last stored bar,
                    \* Engine._last_eval_ts, and what the last message triggered
  loop,             \* where the coroutine of Engine._consume stands, the
                    \* messages waiting in the socket, the evaluations in flight
  book,             \* the tables positions, trades and daily_profits (db.py)
  klines,           \* the open_time of each row of the klines table (db.py)
  boll              \* the bars and the price given to a band policy, and
                    \* the band it returned

vars == <<pc, state, position, last_trade_time, now, client_ok, leverage,
          boot, ev, sent_at, call, feed, loop, book, klines, boll>>

\* ------------------------------------------------------------ pure helpers
\* Python round(x, 3) of the quantity n/d (in thousandths): nearest integer,
\* ties to even
RoundHalfEven(n, d) ==
  LET q == n \div d
      r == n % d
  IN  IF 2 * r < d THEN q
      ELSE IF 2 * r > d THEN q + 1
      ELSE IF q % 2 = 0 THEN q ELSE q + 1

\* truth value of a Python dict, given as its set of keys
Truthy(keys) == keys # {}

\* get_balance returning the simulated default margin when the call fails
get_balance_DefaultMargin(clientOk, acct) ==
  IF ~clientOk THEN 0
  ELSE IF ~acct.ok THEN 1000000
  ELSE IF acct.available <= 0 THEN acct.wallet
  ELSE acct.available

\* Trader.get_balance: 0.0 without a client or when the call fails, the
\* wallet balance when the available balance is <= 0
get_balance(clientOk, acct) ==
  IF ~clientOk THEN 0
  ELSE IF ~acct.ok THEN 0
  ELSE IF acct.available <= 0 THEN acct.wallet
  ELSE acct.available

\* Trader.get_positions as seen by the reconciliation: the positionAmt of the
\* symbol, 0 when there is no client or every attempt failed (empty list)
get_positions(clientOk, queryOk, amt) ==
  IF ~clientOk THEN 0
  ELSE IF ~queryOk THEN 0
  ELSE amt

\* a cooldown test that never rejects
InCooldown_Never(current_time, ltt) == FALSE

\* the cooldown test of _place_short_order / _place_long_order
InCooldown(current_time, ltt) == current_time - ltt < trade_cooldown

\* the solvency test of _place_short_order / _place_long_order
Insolvent(balance, current_price, lev) ==
  balance <= 0 \/ current_price <= 0 \/ lev <= 0

\* ---------------------------------------------------------------- trader
\* Trader.place_order(side, qty, price) with qty = qtyNum / qtyDen thousandths.
\* ret is the returned dict (its keys); sent: futures_create_order was called;
\* executed: it answered and the Trade and the Position were written.
place_order(side, qtyNum, qtyDen, price, pos, clientOk, gw) ==
  LET qty == RoundHalfEven(qtyNum, qtyDen)
      avg == IF gw.avgPrice = 0 THEN price ELSE gw.avgPrice
  IN  IF ~clientOk
        THEN [ret |-> {"error"}, sent |-> FALSE, executed |-> FALSE, position |-> pos]
      ELSE IF qty < MinQtyMilli
        THEN [ret |-> {"error"}, sent |-> FALSE, executed |-> FALSE, position |-> pos]
      ELSE IF gw.raises
        THEN [ret |-> {"error"}, sent |-> TRUE, executed |-> FALSE, position |-> pos]
      ELSE [ret |-> {"orderId", "avgPrice"}, sent |-> TRUE, executed |-> TRUE,
            position |-> [side |-> IF side = "BUY" THEN "long" ELSE "short",
                          qty |-> qty, entry_price |-> avg]]

\* Trader.close_all(current_price): the exit price (0 on failure), whether the
\* order was sent, whether the closing Trade was appended, and the row left
close_all(pos, current_price, clientOk, gw) ==
  LET exit == IF gw.avgPrice = 0 THEN current_price ELSE gw.avgPrice
  IN  IF pos.side = "none"
        THEN [exit_price |-> 0, sent |-> FALSE, trade |-> FALSE, position |-> pos]
      ELSE IF ~clientOk
        THEN [exit_price |-> 0, sent |-> FALSE, trade |-> FALSE, position |-> pos]
      ELSE IF pos.qty < MinQtyMilli
        THEN [exit_price |-> 0, sent |-> FALSE, trade |-> FALSE, position |-> pos]
      ELSE IF gw.raises
        THEN [exit_price |-> 0, sent |-> TRUE, trade |-> FALSE, position |-> pos]
      ELSE [exit_price |-> exit, sent |-> TRUE, trade |-> TRUE,
            position |-> NoPosition]

\* ---------------------------------------------------------------- engine
\* what one evaluation did, besides the new state: kind of order attempted,
\* the gate that decided an open, and the effects on gateway and store
NoEffect(st, pos, ltt) ==
  [state |-> st, position |-> pos, last_trade_time |-> ltt,
   kind |-> "none", gate |-> "none", sent |-> FALSE, executed |-> FALSE,
   trade |-> "none", ledger |-> FALSE, exit_price |-> 0,
   returned |-> FALSE, changes |-> 0, orders |-> 0]

\* an open that does not stamp last_trade_time
OpenOrder_NoStamp(side, current_price, pos, ltt, e) ==
  LET balance == get_balance(e.clientOk, e.acct)
      o == place_order(side, balance * TradePercentNum * e.leverage,
                       TradePercentDen * current_price, current_price, pos,
                       e.clientOk, e.gw)
  IN  IF InCooldown(e.now, ltt)
        THEN [success |-> FALSE, gate |-> "cooldown", sent |-> FALSE,
              executed |-> FALSE, position |-> pos, last_trade_time |-> ltt]
      ELSE IF Insolvent(balance, current_price, e.leverage)
        THEN [success |-> FALSE, gate |-> "solvency", sent |-> FALSE,
              executed |-> FALSE, position |-> pos, last_trade_time |-> ltt]
      ELSE [success |-> Truthy(o.ret), gate |-> "passed", sent |-> o.sent,
            executed |-> o.executed, position |-> o.position,
            last_trade_time |-> ltt]

\* Engine._place_short_order / _place_long_order (side "SELL" / "BUY"):
\* success is the truth value the caller tests
OpenOrder(side, current_price, pos, ltt, e) ==
  LET balance == get_balance(e.clientOk, e.acct)
      o == place_order(side, balance * TradePercentNum * e.leverage,
                       TradePercentDen * current_price, current_price, pos,
                       e.clientOk, e.gw)
  IN  IF InCooldown(e.now, ltt)
        THEN [success |-> FALSE, gate |-> "cooldown", sent |-> FALSE,
              executed |-> FALSE, position |-> pos, last_trade_time |-> ltt]
      ELSE IF Insolvent(balance, current_price, e.leverage)
        THEN [success |-> FALSE, gate |-> "solvency", sent |-> FALSE,
              executed |-> FALSE, position |-> pos, last_trade_time |-> ltt]
      ELSE [success |-> Truthy(o.ret), gate |-> "passed", sent |-> o.sent,
            executed |-> o.executed, position |-> o.position,
            last_trade_time |-> IF Truthy(o.ret) THEN e.now ELSE ltt]

place_short_order(current_price, pos, ltt, e) ==
  OpenOrder("SELL", current_price, pos, ltt, e)

place_long_order(current_price, pos, ltt, e) ==
  OpenOrder("BUY", current_price, pos, ltt, e)

\* a close that reports a failure when there is no position to close
close_and_update_profit_NeedsPosition(price, pos, e) ==
  LET c == close_all(pos, price, e.clientOk, e.gw)
  IN  IF pos.side = "none"
        THEN [ok |-> FALSE, sent |-> FALSE, trade |-> FALSE, ledger |-> FALSE,
              position |-> pos, exit_price |-> 0]
      ELSE IF c.exit_price <= 0
        THEN [ok |-> FALSE, sent |-> c.sent, trade |-> c.trade, ledger |-> FALSE,
              position |-> c.position, exit_price |-> c.exit_price]
      ELSE [ok |-> TRUE, sent |-> c.sent, trade |-> c.trade, ledger |-> TRUE,
            position |-> c.position, exit_price |-> c.exit_price]

\* Engine.close_and_update_profit(price): TRUE without a position; FALSE when
\* close_all returns an exit price <= 0; else the daily ledger is updated
close_and_update_profit(price, pos, e) ==
  LET c == close_all(pos, price, e.clientOk, e.gw)
  IN  IF pos.side = "none"
        THEN [ok |-> TRUE, sent |-> FALSE, trade |-> FALSE, ledger |-> FALSE,
              position |-> pos, exit_price |-> 0]
      ELSE IF c.exit_price <= 0
        THEN [ok |-> FALSE, sent |-> c.sent, trade |-> c.trade, ledger |-> FALSE,
              position |-> c.position, exit_price |-> c.exit_price]
      ELSE [ok |-> TRUE, sent |-> c.sent, trade |-> c.trade, ledger |-> TRUE,
            position |-> c.position, exit_price |-> c.exit_price]

\* the state set without testing the result of the open
AfterOpen_Always(o, st, target) ==
  [state |-> target,
   position |-> o.position, last_trade_time |-> o.last_trade_time,
   kind |-> "open", gate |-> o.gate, sent |-> o.sent, executed |-> o.executed,
   trade |-> IF o.executed THEN "open" ELSE "none", ledger |-> FALSE,
   exit_price |-> 0,
   returned |-> FALSE, changes |-> 1, orders |-> IF o.sent THEN 1 ELSE 0]

\* the branch "if await self._place_*_order(...): self.state = target"
AfterOpen(o, st, target) ==
  [state |-> IF o.success THEN target ELSE st,
   position |-> o.position, last_trade_time |-> o.last_trade_time,
   kind |-> "open", gate |-> o.gate, sent |-> o.sent, executed |-> o.executed,
   trade |-> IF o.executed THEN "open" ELSE "none", ledger |-> FALSE,
   exit_price |-> 0,
   returned |-> FALSE, changes |-> IF o.success THEN 1 ELSE 0,
   orders |-> IF o.sent THEN 1 ELSE 0]

\* the state set without testing the result of the close
AfterClose_Always(c, st, ltt, target) ==
  [state |-> target,
   position |-> c.position, last_trade_time |-> ltt,
   kind |-> "close", gate |-> "none", sent |-> c.sent, executed |-> c.trade,
   trade |-> IF c.trade THEN "close" ELSE "none", ledger |-> c.ledger,
   exit_price |-> c.exit_price,
   returned |-> FALSE, changes |-> 1, orders |-> IF c.sent THEN 1 ELSE 0]

\* the branch "if await self.close_and_update_profit(...): self.state = target"
AfterClose(c, st, ltt, target) ==
  [state |-> IF c.ok THEN target ELSE st,
   position |-> c.position, last_trade_time |-> ltt,
   kind |-> "close", gate |-> "none", sent |-> c.sent, executed |-> c.trade,
   trade |-> IF c.trade THEN "close" ELSE "none", ledger |-> c.ledger,
   exit_price |-> c.exit_price,
   returned |-> FALSE, changes |-> IF c.ok THEN 1 ELSE 0,
   orders |-> IF c.sent THEN 1 ELSE 0]

\* "self.state = target" as the only effect of a branch
SetState(s, target) == [s EXCEPT !.state = target, !.changes = @ + 1]

\* the result r of an open or a close called by a branch, with the counts
\* of the statements that ran before it
After(s, r) ==
  [r EXCEPT !.changes = @ + s.changes, !.orders = @ + s.orders]

\* a branch that does not leave the handler after it acted
Return_FallThrough(s) == s

\* the "return" that ends a branch: no later statement of the handler runs
Return(s) == [s EXCEPT !.returned = TRUE]

\* The top-level "if" statements of _handle_state_transitions, one operator
\* each, in the order of the code. s holds the engine fields and what the
\* handler did so far; a statement is skipped once an earlier one returned,
\* and one whose condition is false passes s on unchanged.

\* the "if" at line 364
OnWaitingAboveUp(s, close_price, current_price, up, mid, dn, e) ==
  IF s.returned THEN s
  ELSE
    IF s.state = STATE_WAITING /\ close_price > up
      THEN Return(SetState(s, STATE_BREAKOUT_UP_WAIT_FALL))
      ELSE s

\* the "if" at line 370
OnBreakoutUpWaitFall(s, close_price, current_price, up, mid, dn, e) ==
  IF s.returned THEN s
  ELSE
    IF s.state = STATE_BREAKOUT_UP_WAIT_FALL /\ close_price <= up
      THEN IF close_price < mid THEN Return(s)
           ELSE Return(After(s, AfterOpen(
                  place_short_order(current_price, s.position,
                                    s.last_trade_time, e),
                  s.state, STATE_HOLDING_SHORT)))
      ELSE s

\* the "if" at line 381
OnShortStopLossWaitFall(s, close_price, current_price, up, mid, dn, e) ==
  IF s.returned THEN s
  ELSE
    IF s.state = STATE_SHORT_STOP_LOSS_WAIT_FALL /\ close_price <= up
      THEN IF close_price < mid THEN Return(s)
           ELSE Return(After(s, AfterOpen(
                  place_short_order(current_price, s.position,
                                    s.last_trade_time, e),
                  s.state, STATE_HOLDING_SHORT)))
      ELSE s

\* a stop-loss of the short that triggers when the close touches the upper band
OnHoldingShort_StopAtTouch(s, close_price, current_price, up, mid, dn, e) ==
  IF s.returned THEN s
  ELSE
    IF s.state = STATE_HOLDING_SHORT
      THEN IF close_price >= up
             THEN Return(After(s, AfterClose(
                    close_and_update_profit(current_price, s.position, e),
                    s.state, s.last_trade_time,
                    STATE_SHORT_STOP_LOSS_WAIT_FALL)))
           ELSE IF close_price < mid
             THEN Return(SetState(s, STATE_SHORT_BELOW_MID_WAIT))
           ELSE s
      ELSE s

\* the "if" at line 392
OnHoldingShort(s, close_price, current_price, up, mid, dn, e) ==
  IF s.returned THEN s
  ELSE
    IF s.state = STATE_HOLDING_SHORT
      THEN IF close_price > up
             THEN Return(After(s, AfterClose(
                    close_and_update_profit(current_price, s.position, e),
                    s.state, s.last_trade_time,
                    STATE_SHORT_STOP_LOSS_WAIT_FALL)))
           ELSE IF close_price < mid
             THEN Return(SetState(s, STATE_SHORT_BELOW_MID_WAIT))
           ELSE s
      ELSE s

\* the "if" at line 407
OnShortBelowMidWait(s, close_price, current_price, up, mid, dn, e) ==
  IF s.returned THEN s
  ELSE
    IF s.state = STATE_SHORT_BELOW_MID_WAIT
      THEN IF close_price > mid
             THEN Return(After(s, AfterClose(
                    close_and_update_profit(current_price, s.position, e),
                    s.state, s.last_trade_time,
                    STATE_SHORT_PROFIT_TAKEN)))
           ELSE IF close_price < dn
             THEN Return(SetState(s, STATE_SHORT_WAIT_PROFIT))
           ELSE s
      ELSE s

\* a breakdown that is flagged when the close only touches the lower band
OnWaitingBelowDn_Touch(s, close_price, current_price, up, mid, dn, e) ==
  IF s.returned THEN s
  ELSE
    IF s.state = STATE_WAITING /\ close_price <= dn
      THEN Return(SetState(s, STATE_BREAKDOWN_DN_WAIT_BOUNCE))
      ELSE s

\* the "if" at line 426
OnWaitingBelowDn(s, close_price, current_price, up, mid, dn, e) ==
  IF s.returned THEN s
  ELSE
    IF s.state = STATE_WAITING /\ close_price < dn
      THEN Return(SetState(s, STATE_BREAKDOWN_DN_WAIT_BOUNCE))
      ELSE s

\* the "if" at line 432
OnBreakdownDnWaitBounce(s, close_price, current_price, up, mid, dn, e) ==
  IF s.returned THEN s
  ELSE
    IF s.state = STATE_BREAKDOWN_DN_WAIT_BOUNCE /\ close_price > dn
      THEN IF close_price > mid THEN Return(s)
           ELSE Return(After(s, AfterOpen(
                  place_long_order(current_price, s.position,
                                   s.last_trade_time, e),
                  s.state, STATE_HOLDING_LONG)))
      ELSE s

\* the "if" at line 443
OnLongStopLossWaitBounce(s, close_price, current_price, up, mid, dn, e) ==
  IF s.returned THEN s
  ELSE
    IF s.state = STATE_LONG_STOP_LOSS_WAIT_BOUNCE /\ close_price > dn
      THEN IF close_price > mid THEN Return(s)
           ELSE Return(After(s, AfterOpen(
                  place_long_order(current_price, s.position,
                                   s.last_trade_time, e),
                  s.state, STATE_HOLDING_LONG)))
      ELSE s

\* the "if" at line 454
OnHoldingLong(s, close_price, current_price, up, mid, dn, e) ==
  IF s.returned THEN s
  ELSE
    IF s.state = STATE_HOLDING_LONG
      THEN IF close_price < dn
             THEN Return(After(s, AfterClose(
                    close_and_update_profit(current_price, s.position, e),
                    s.state, s.last_trade_time,
                    STATE_LONG_STOP_LOSS_WAIT_BOUNCE)))
           ELSE IF close_price > mid
             THEN Return(SetState(s, STATE_LONG_ABOVE_MID_WAIT))
           ELSE s
      ELSE s

\* a long whose wait for the upper band ends when the close touches it
OnLongAboveMidWait_Touch(s, close_price, current_price, up, mid, dn, e) ==
  IF s.returned THEN s
  ELSE
    IF s.state = STATE_LONG_ABOVE_MID_WAIT
      THEN IF close_price >= up
             THEN Return(SetState(s, STATE_LONG_WAIT_PROFIT))
           ELSE IF close_price < mid
             THEN Return(After(s, AfterClose(
                    close_and_update_profit(current_price, s.position, e),
                    s.state, s.last_trade_time,
                    STATE_LONG_PROFIT_TAKEN)))
           ELSE s
      ELSE s

\* the "if" at line 469
OnLongAboveMidWait(s, close_price, current_price, up, mid, dn, e) ==
  IF s.returned THEN s
  ELSE
    IF s.state = STATE_LONG_ABOVE_MID_WAIT
      THEN IF close_price > up
             THEN Return(SetState(s, STATE_LONG_WAIT_PROFIT))
           ELSE IF close_price < mid
             THEN Return(After(s, AfterClose(
                    close_and_update_profit(current_price, s.position, e),
                    s.state, s.last_trade_time,
                    STATE_LONG_PROFIT_TAKEN)))
           ELSE s
      ELSE s

\* a take-profit of the short that waits for the close of a bar
OnShortWaitProfit_OnClose(s, close_price, current_price, up, mid, dn, e) ==
  IF s.returned THEN s
  ELSE
    IF s.state = STATE_SHORT_WAIT_PROFIT /\ close_price > dn
      THEN Return(After(s, AfterClose(
             close_and_update_profit(current_price, s.position, e),
             s.state, s.last_trade_time, STATE_WAITING)))
      ELSE s

\* the "if" at line 486
OnShortWaitProfit(s, close_price, current_price, up, mid, dn, e) ==
  IF s.returned THEN s
  ELSE
    IF s.state = STATE_SHORT_WAIT_PROFIT /\ current_price > dn
      THEN Return(After(s, AfterClose(
             close_and_update_profit(current_price, s.position, e),
             s.state, s.last_trade_time, STATE_WAITING)))
      ELSE s

\* the "if" at line 494
OnLongWaitProfit(s, close_price, current_price, up, mid, dn, e) ==
  IF s.returned THEN s
  ELSE
    IF s.state = STATE_LONG_WAIT_PROFIT /\ current_price < up
      THEN Return(After(s, AfterClose(
             close_and_update_profit(current_price, s.position, e),
             s.state, s.last_trade_time, STATE_WAITING)))
      ELSE s

\* a reset after the short's profit that waits for a close inside the band
OnShortProfitTaken_InsideBand(s, close_price, current_price, up, mid, dn, e) ==
  IF s.returned THEN s
  ELSE
    IF s.state = STATE_SHORT_PROFIT_TAKEN /\ close_price <= up /\ close_price >= dn
      THEN Return(SetState(s, STATE_WAITING))
      ELSE s

\* the "if" at line 504
OnShortProfitTaken(s, close_price, current_price, up, mid, dn, e) ==
  IF s.returned THEN s
  ELSE
    IF s.state = STATE_SHORT_PROFIT_TAKEN
      THEN Return(SetState(s, STATE_WAITING))
      ELSE s

\* LONG_PROFIT_TAKEN as a state that is never left
OnLongProfitTaken_Never(s, close_price, current_price, up, mid, dn, e) == s

\* the "if" at line 510
OnLongProfitTaken(s, close_price, current_price, up, mid, dn, e) ==
  IF s.returned THEN s
  ELSE
    IF s.state = STATE_LONG_PROFIT_TAKEN
      THEN Return(SetState(s, STATE_WAITING))
      ELSE s

\* Engine._handle_state_transitions: its statements run in the order of the
\* code (innermost first), from the engine fields at the call
handle_state_transitions(st, pos, ltt, close_price, current_price, up, mid, dn, e) ==
  OnLongProfitTaken(
   OnShortProfitTaken(
    OnLongWaitProfit(
     OnShortWaitProfit(
      OnLongAboveMidWait(
       OnHoldingLong(
        OnLongStopLossWaitBounce(
         OnBreakdownDnWaitBounce(
          OnWaitingBelowDn(
           OnShortBelowMidWait(
            OnHoldingShort(
             OnShortStopLossWaitFall(
              OnBreakoutUpWaitFall(
               OnWaitingAboveUp(NoEffect(st, pos, ltt),
                 close_price, current_price, up, mid, dn, e),
                close_price, current_price, up, mid, dn, e),
               close_price, current_price, up, mid, dn, e),
              close_price, current_price, up, mid, dn, e),
             close_price, current_price, up, mid, dn, e),
            close_price, current_price, up, mid, dn, e),
           close_price, current_price, up, mid, dn, e),
          close_price, current_price, up, mid, dn, e),
         close_price, current_price, up, mid, dn, e),
        close_price, current_price, up, mid, dn, e),
       close_price, current_price, up, mid, dn, e),
      close_price, current_price, up, mid, dn, e),
     close_price, current_price, up, mid, dn, e),
    close_price, current_price, up, mid, dn, e)

\* a reconciliation that keeps the local record when the sides disagree
sync_TrustLocal(db_position, api_amt) ==
  IF db_position.side # "none" /\ api_amt = 0
    THEN [stored |-> NoPosition, pos |-> NoPosition]
  ELSE IF api_amt # 0 /\ db_position.side = "none"
    THEN [stored |-> db_position, pos |-> NoPosition]
  ELSE IF db_position.side # "none" /\ api_amt # 0
    THEN [stored |-> db_position, pos |-> db_position]
  ELSE [stored |-> db_position, pos |-> NoPosition]

\* a reconciliation that forgets to delete the stale local record
sync_KeepStale(db_position, api_amt) ==
  LET api_side == IF api_amt > 0 THEN "long" ELSE "short"
  IN  IF db_position.side # "none" /\ api_amt = 0
        THEN [stored |-> db_position, pos |-> NoPosition]
      ELSE IF api_amt # 0 /\ db_position.side = "none"
        THEN [stored |-> db_position, pos |-> NoPosition]
      ELSE IF db_position.side # "none" /\ api_amt # 0
        THEN IF db_position.side # api_side
               THEN [stored |-> db_position, pos |-> NoPosition]
               ELSE [stored |-> db_position, pos |-> db_position]
      ELSE [stored |-> db_position, pos |-> NoPosition]

\* Engine._sync_position_with_api: the row kept in the store and the
\* position returned to the constructor, from the stored row and the
\* positionAmt the gateway reports (0: none)
sync_position_with_api(db_position, api_amt) ==
  LET api_side == IF api_amt > 0 THEN "long" ELSE "short"
  IN  IF db_position.side # "none" /\ api_amt = 0
        THEN [stored |-> NoPosition, pos |-> NoPosition]
      ELSE IF api_amt # 0 /\ db_position.side = "none"
        THEN [stored |-> db_position, pos |-> NoPosition]
      ELSE IF db_position.side # "none" /\ api_amt # 0
        THEN IF db_position.side # api_side
               THEN [stored |-> NoPosition, pos |-> NoPosition]
               ELSE [stored |-> db_position, pos |-> db_position]
      ELSE [stored |-> db_position, pos |-> NoPosition]

\* Engine.__init__: the state restored from the reconciled position
RestoredState(pos) ==
  IF pos.side = "long" THEN STATE_HOLDING_LONG
  ELSE IF pos.side = "short" THEN STATE_HOLDING_SHORT
  ELSE STATE_WAITING

\* an outgoing transition of the state machine: target and triggering condition
Arc(target, on) == [to |-> target, on |-> on]

\* a machine whose stop-loss of a short triggers on close_price >= middle
Outgoing_StopAtMiddle(st, close_price, current_price, up, mid, dn) ==
  IF st = STATE_HOLDING_SHORT
    THEN { Arc(STATE_SHORT_STOP_LOSS_WAIT_FALL, close_price >= mid),
           Arc(STATE_SHORT_BELOW_MID_WAIT, close_price <= mid) }
    ELSE {}

\* the outgoing transitions of state st in _handle_state_transitions, each
\* with the condition its branch tests on (close_price, current_price, band)
Outgoing(st, close_price, current_price, up, mid, dn) ==
  IF st = STATE_WAITING
    THEN { Arc(STATE_BREAKOUT_UP_WAIT_FALL, close_price > up),
           Arc(STATE_BREAKDOWN_DN_WAIT_BOUNCE, close_price < dn) }
  ELSE IF st \in {STATE_BREAKOUT_UP_WAIT_FALL, STATE_SHORT_STOP_LOSS_WAIT_FALL}
    THEN { Arc(STATE_HOLDING_SHORT, close_price <= up /\ ~(close_price < mid)) }
  ELSE IF st = STATE_HOLDING_SHORT
    THEN { Arc(STATE_SHORT_STOP_LOSS_WAIT_FALL, close_price > up),
           Arc(STATE_SHORT_BELOW_MID_WAIT, close_price < mid) }
  ELSE IF st = STATE_SHORT_BELOW_MID_WAIT
    THEN { Arc(STATE_SHORT_PROFIT_TAKEN, close_price > mid),
           Arc(STATE_SHORT_WAIT_PROFIT, close_price < dn) }
  ELSE IF st \in {STATE_BREAKDOWN_DN_WAIT_BOUNCE, STATE_LONG_STOP_LOSS_WAIT_BOUNCE}
    THEN { Arc(STATE_HOLDING_LONG, close_price > dn /\ ~(close_price > mid)) }
  ELSE IF st = STATE_HOLDING_LONG
    THEN { Arc(STATE_LONG_STOP_LOSS_WAIT_BOUNCE, close_price < dn),
           Arc(STATE_LONG_ABOVE_MID_WAIT, close_price > mid) }
  ELSE IF st = STATE_LONG_ABOVE_MID_WAIT
    THEN { Arc(STATE_LONG_WAIT_PROFIT, close_price > up),
           Arc(STATE_LONG_PROFIT_TAKEN, close_price < mid) }
  ELSE IF st = STATE_SHORT_WAIT_PROFIT
    THEN { Arc(STATE_WAITING, current_price > dn) }
  ELSE IF st = STATE_LONG_WAIT_PROFIT
    THEN { Arc(STATE_WAITING, current_price < up) }
  ELSE { Arc(STATE_WAITING, TRUE) }

\* ------------------------------------------------------------- behaviour
\* the record of an evaluation that attempted nothing
NoEvaluation ==
  [pre |-> STATE_WAITING, kind |-> "none", gate |-> "none", sent |-> FALSE,
   trade |-> "none", ledger |-> FALSE, close |-> "none", exit_price |-> 0,
   wrote |-> FALSE, changes |-> 0, orders |-> 0,
   available |-> 0, wallet |-> 0, price |-> 0,
   gap_any |-> -1, gap_open |-> -1, pairs |-> {}]

\* the record of a handler call that was not made
NoCall ==
  [pre |-> STATE_WAITING, had |-> NoPosition, close_price |-> 0,
   current_price |-> 0, up |-> 0, mid |-> 0, dn |-> 0,
   r |-> NoEffect(STATE_WAITING, NoPosition, 0)]

\* the feed before any message: the fields as Engine.__init__ sets them,
\* and what the last message did (trigger, pre, ticked, gap, read) and how far the
\* messages so far follow the scenario (script, closes, ledgers)
NoFeed ==
  [last_price |-> 0, close |-> 0, last_eval |-> 0, trigger |-> "none",
   pre |-> STATE_WAITING, ticked |-> FALSE, gap |-> -1, read |-> -1,
   script |-> 0, closes |-> 0, ledgers |-> 0]

\* the consumer before any message: waiting on the socket, nothing in flight
NoLoop == [at |-> "recv", queue |-> <<>>, closed |-> FALSE, evals |-> <<>>]

\* a daily_profits row that does not exist, read as get_daily_profit reads it
NoDaily ==
  [exists |-> FALSE, trade_count |-> 0, profit |-> 0, loss_count |-> 0,
   profit_count |-> 0, total_fees |-> 0]

\* the record of a store on which nothing was done yet
NoOp ==
  [op |-> "none", realized |-> FALSE, had |-> NoPosition, exit_price |-> 0,
   before |-> NoDaily]

\* the empty store on the first date
NoBook ==
  [positions |-> <<>>, trades |-> <<>>, daily |-> [d \in Dates |-> NoDaily],
   date |-> 0, last |-> NoOp]

\* the record of a constructor that has not run, or whose engine is evaluating
NoBoot == [db |-> NoPosition, api |-> 0, failed |-> FALSE]

\* no band
NoBand == [dn |-> 0, mid |-> 0, up |-> 0]

\* no policy was called
NoBoll ==
  [bars |-> <<>>, price |-> 0, policy |-> "none", raised |-> FALSE,
   band |-> NoBand, rows |-> 0, net |-> "up"]

\* time since the order sent before this one, -1 when there is none
Gap(t, before) == IF before < 0 THEN -1 ELSE t - before

\* the numbers of opening orders sent by this qualifying evaluation together
\* with each earlier qualifying evaluation less than the cooldown before it
PairCounts(t, sentNow, q) ==
  LET me == IF sentNow THEN 1 ELSE 0
      Near(before) == before >= 0 /\ t - before < trade_cooldown
  IN  (IF Near(q.open) THEN {me + 1} ELSE {})
      \cup (IF Near(q.qual_idle) THEN {me} ELSE {})

\* how a close attempt of an evaluation ended
CloseOutcome(r, pos) ==
  IF r.kind # "close" THEN "none"
  ELSE IF pos.side = "none" THEN "no_position"
  ELSE IF r.exit_price <= 0 THEN "failed"
  ELSE "closed"

\* the gateway answers only the calls an evaluation makes: the balance is
\* read in the states that can open, an order is placed in those and in
\* the states that can close
AccountsAsked(st) ==
  IF st \in OpenWaitStates THEN Accounts
  ELSE {[ok |-> FALSE, available |-> 0, wallet |-> 0]}

GatewaysAsked(st) ==
  IF st \in OpenWaitStates \cup HoldingStates THEN Gateways
  ELSE {[raises |-> TRUE, avgPrice |-> 0]}

Init ==
  /\ pc = "boot"
  /\ state = STATE_WAITING
  /\ position \in StoredPositions
  /\ last_trade_time = 0
  /\ now = StartMs
  /\ client_ok \in BOOLEAN
  /\ leverage \in Leverages
  /\ boot = NoBoot
  /\ ev = NoEvaluation
  /\ sent_at = [any |-> -1, open |-> -1, qual_idle |-> -1]
  /\ call = NoCall
  /\ feed = NoFeed
  /\ loop = NoLoop
  /\ book = NoBook
  /\ klines = <<>>
  /\ boll = NoBoll

\* Engine.__init__: reconcile the stored position with the gateway's and
\* restore the state from the result
Construct ==
  /\ pc = "boot"
  /\ \E queryOk \in BOOLEAN, exchange_amt \in PositionAmts :
       LET api == get_positions(client_ok, queryOk, exchange_amt)
           s == sync_position_with_api(position, api)
       IN  /\ position' = s.stored
           /\ state' = RestoredState(s.pos)
           /\ boot' = [db |-> position, api |-> api,
                        failed |-> client_ok /\ ~queryOk]
  /\ pc' = "ready"
  /\ UNCHANGED <<last_trade_time, now, client_ok, leverage, ev, sent_at, call,
                 feed, loop, book, klines, boll>>

\* Engine.evaluate: one evaluation, with the close price of the last bar,
\* the last tick price, the band, and what the gateway answers
Evaluate ==
  /\ pc \in {"ready", "run"}
  /\ \E dt \in 0..MaxDt, close_price \in Prices, last_price \in TickPrices,
        band \in Bands, acct \in AccountsAsked(state),
        gw \in GatewaysAsked(state) :
       /\ now + dt * StepMs <= EndMs
       /\ \E t \in {now + dt * StepMs},
             current_price \in {IF last_price # 0 THEN last_price ELSE close_price} :
           \E r \in {handle_state_transitions(state, position, last_trade_time,
                       close_price, current_price, band.up, band.mid, band.dn,
                       [now |-> t, clientOk |-> client_ok, leverage |-> leverage,
                        acct |-> acct, gw |-> gw])} :
             LET opening == r.kind = "open"
             IN  /\ now' = t
                 /\ state' = r.state
                 /\ position' = r.position
                 /\ last_trade_time' = r.last_trade_time
                 /\ ev' = [pre |-> state, kind |-> r.kind, gate |-> r.gate,
                           sent |-> r.sent, trade |-> r.trade, ledger |-> r.ledger,
                           close |-> CloseOutcome(r, position),
                           exit_price |-> r.exit_price,
                           wrote |-> r.position # position,
                           changes |-> r.changes, orders |-> r.orders,
                           available |-> IF opening /\ client_ok /\ acct.ok
                                           THEN acct.available ELSE 0,
                           wallet |-> IF opening /\ client_ok /\ acct.ok
                                        THEN acct.wallet ELSE 0,
                           price |-> IF opening THEN current_price ELSE 0,
                           gap_any |-> IF r.sent THEN Gap(t, sent_at.any) ELSE -1,
                           gap_open |-> IF r.sent /\ opening
                                          THEN Gap(t, sent_at.open) ELSE -1,
                           pairs |-> IF opening THEN PairCounts(t, r.sent, sent_at)
                                     ELSE {}]
                 /\ sent_at' =
                      [any |-> IF r.sent THEN t ELSE sent_at.any,
                       open |-> IF r.sent /\ opening THEN t ELSE sent_at.open,
                       qual_idle |-> IF opening /\ ~r.sent THEN t
                                     ELSE sent_at.qual_idle]
  /\ pc' = "run"
  /\ boot' = NoBoot
  /\ UNCHANGED <<client_ok, leverage, call, feed, loop, book, klines, boll>>

Next == Construct \/ Evaluate

Spec == Init /\ [][Next]_vars

\* ------------------------------------------------- one call of the handler
\* The transition handler as a function: it is called once, from any
\* engine state the behaviour above reaches, on prices and bands that put
\* the close price below, on, between and above every line of the band.

\* the engine states and stored rows a call can start from: a row of the
\* side of the state in the states that hold a position, and no row in any
\* state (in a holding state: after an open that failed or a close that
\* left nothing)
Entries ==
  { en \in AllStates \X StoredPositions :
      \/ en[2] = NoPosition
      \/ /\ en[2].side = "short"
         /\ en[1] \in { STATE_HOLDING_SHORT, STATE_SHORT_BELOW_MID_WAIT,
                        STATE_SHORT_WAIT_PROFIT }
      \/ /\ en[2].side = "long"
         /\ en[1] \in { STATE_HOLDING_LONG, STATE_LONG_ABOVE_MID_WAIT,
                        STATE_LONG_WAIT_PROFIT } }

InitCall ==
  /\ pc = "call"
  /\ \E en \in Entries : state = en[1] /\ position = en[2]
  /\ now = StartMs
  /\ last_trade_time \in (IF position = NoPosition THEN {0, StartMs} ELSE {0})
  /\ client_ok \in (IF position = NoPosition THEN BOOLEAN ELSE {TRUE})
  /\ leverage \in Leverages
  /\ boot = NoBoot
  /\ ev = NoEvaluation
  /\ sent_at = [any |-> -1, open |-> -1, qual_idle |-> -1]
  /\ call = NoCall
  /\ feed = NoFeed
  /\ loop = NoLoop
  /\ book = NoBook
  /\ klines = <<>>
  /\ boll = NoBoll

\* Engine._handle_state_transitions(close_price, current_price, up, mid, dn),
\* with the prices as Engine.evaluate derives them
HandlerCall ==
  /\ pc = "call"
  /\ \E close_price \in CallPrices, last_price \in CallPrices,
        band \in CallBands, acct \in AccountsAsked(state),
        gw \in GatewaysAsked(state) :
       \E current_price \in {IF last_price # 0 THEN last_price ELSE close_price} :
         \E r \in {handle_state_transitions(state, position, last_trade_time,
                     close_price, current_price, band.up, band.mid, band.dn,
                     [now |-> now, clientOk |-> client_ok, leverage |-> leverage,
                      acct |-> acct, gw |-> gw])} :
           /\ state' = r.state
           /\ position' = r.position
           /\ last_trade_time' = r.last_trade_time
           /\ call' = [pre |-> state, had |-> position,
                       close_price |-> close_price,
                       current_price |-> current_price,
                       up |-> band.up, mid |-> band.mid, dn |-> band.dn,
                       r |-> r]
  /\ pc' = "called"
  /\ UNCHANGED <<now, client_ok, leverage, boot, ev, sent_at, feed, loop, book, klines, boll>>

NextCall == HandlerCall

SpecCall == InitCall /\ [][NextCall]_vars

\* ------------------------------------------------------ the message feed
\* Engine._consume: every kline message sets last_price and, at most once
\* per second, evaluates on the bars stored so far; the message of a closed
\* bar then stores the bar and evaluates again.

\* Engine.evaluate: close_price is the close of the last stored bar,
\* current_price the last tick price unless that is 0
evaluate(st, pos, ltt, close_price, last_price, band, e) ==
  handle_state_transitions(st, pos, ltt, close_price,
                           IF last_price # 0 THEN last_price ELSE close_price,
                           band.up, band.mid, band.dn, e)

\* the throttle that lets every message through
ThrottleElapsed_Always(t, last_eval_ts) == TRUE

\* "if now - self._last_eval_ts >= 1.0" of Engine._consume
ThrottleElapsed(t, last_eval_ts) == t - last_eval_ts >= eval_throttle

\* the closed bar evaluated before it is stored
StoredClose_Stale(is_closed, price, close) == close

\* the close of the last stored bar once the message is handled: the bar
\* of a message with x = true is inserted before the evaluation it triggers
StoredClose(is_closed, price, close) == IF is_closed THEN price ELSE close

\* a feed error that restarts the engine
AfterFeedError_Restart == "boot"

\* Engine.run_ws after the connection ended or raised: the loop goes on
\* with the same engine
AfterFeedError == "run"

\* the gateway answers of an evaluation: one of them stands for all when
\* the evaluation is not run
AnswersOf(run, answers) ==
  IF run THEN answers ELSE {CHOOSE a \in answers : TRUE}

\* the messages of the end-to-end scenario, in order
Scenario ==
  << [price |-> 106, closed |-> TRUE], [price |-> 104, closed |-> TRUE],
     [price |-> 94, closed |-> TRUE], [price |-> 96, closed |-> FALSE],
     [price |-> 96, closed |-> FALSE] >>

\* the scenario starts in WAITING without a position, the last stored bar
\* inside the band
ScenarioStart(st, pos, close, band) ==
  st = STATE_WAITING /\ pos = NoPosition /\ band.dn <= close /\ close <= band.up

\* the number of scenario messages matched once this message is handled,
\* -1 when the run left the scenario: a tick counts only when it was
\* evaluated, an order only when the gateway executed it
ScriptAfter(k, price, is_closed, due, executed, started) ==
  IF k < 0 \/ k >= Len(Scenario) THEN -1
  ELSE IF /\ Scenario[k + 1].price = price
          /\ Scenario[k + 1].closed = is_closed
          /\ (is_closed \/ due)
          /\ executed
          /\ (k > 0 \/ started)
    THEN k + 1
  ELSE -1

\* an evaluation whose order, if it attempted one, was executed
Executed(s) == s.kind # "none" => s.executed

InitFeed ==
  /\ pc = "boot"
  /\ state = STATE_WAITING
  /\ position \in StoredPositions
  /\ last_trade_time = 0
  /\ now = StartMs
  /\ client_ok \in BOOLEAN
  /\ leverage \in Leverages
  /\ boot = NoBoot
  /\ ev = NoEvaluation
  /\ sent_at = [any |-> -1, open |-> -1, qual_idle |-> -1]
  /\ call = NoCall
  /\ \E c \in FeedPrices : feed = [NoFeed EXCEPT !.close = c]
  /\ loop = NoLoop
  /\ book = NoBook
  /\ klines = <<>>
  /\ boll = NoBoll

\* one message of the kline stream: price is its field c, is_closed its
\* field x; the gateway answers the calls of the two evaluations of one
\* message alike
Message ==
  /\ pc \in {"ready", "run"}
  /\ \E dt \in 0..MaxDt, price \in FeedPrices, is_closed \in BOOLEAN :
       /\ now + dt * StepMs <= EndMs
       /\ \E t \in {now + dt * StepMs} :
           \E due \in {ThrottleElapsed(t, feed.last_eval)} :
            \E band \in Bands, acct \in AnswersOf(due, AccountsAsked(state)),
               gw \in AnswersOf(due, GatewaysAsked(state)) :
             \E s1 \in {IF due
                          THEN evaluate(state, position, last_trade_time,
                                 feed.close, price, band,
                                 [now |-> t, clientOk |-> client_ok,
                                  leverage |-> leverage, acct |-> acct,
                                  gw |-> gw])
                          ELSE NoEffect(state, position, last_trade_time)} :
               \E band2 \in Bands,
                  stored \in {StoredClose(is_closed, price, feed.close)},
                  acct2 \in IF due /\ state \in OpenWaitStates THEN {acct}
                            ELSE AnswersOf(is_closed, AccountsAsked(s1.state)),
                  gw2 \in IF due /\ state \in OpenWaitStates \cup HoldingStates
                            THEN {gw}
                          ELSE AnswersOf(is_closed, GatewaysAsked(s1.state)) :
                 \E s2 \in {IF is_closed
                              THEN evaluate(s1.state, s1.position,
                                     s1.last_trade_time, stored, price, band2,
                                     [now |-> t, clientOk |-> client_ok,
                                      leverage |-> leverage, acct |-> acct2,
                                      gw |-> gw2])
                              ELSE NoEffect(s1.state, s1.position,
                                            s1.last_trade_time)} :
                  \E k \in {ScriptAfter(feed.script, price, is_closed, due,
                                Executed(s1) /\ Executed(s2),
                                ScenarioStart(state, position, feed.close,
                                              band))} :
                   /\ now' = t
                   /\ state' = s2.state
                   /\ position' = s2.position
                   /\ last_trade_time' = s2.last_trade_time
                   /\ feed' = [last_price |-> price,
                               close |-> stored,
                               last_eval |-> IF due THEN t ELSE feed.last_eval,
                               trigger |-> IF is_closed THEN "bar_close"
                                           ELSE IF due THEN "tick" ELSE "none",
                               pre |-> IF is_closed THEN s1.state ELSE state,
                               ticked |-> due,
                               gap |-> IF due /\ feed.last_eval > 0
                                         THEN t - feed.last_eval ELSE -1,
                               read |-> IF is_closed THEN stored
                                        ELSE IF due THEN feed.close ELSE -1,
                               script |-> k,
                               closes |-> IF k < 0 THEN 0
                                          ELSE feed.closes
                                            + (IF s1.trade = "close" THEN 1 ELSE 0)
                                            + (IF s2.trade = "close" THEN 1 ELSE 0),
                               ledgers |-> IF k < 0 THEN 0
                                           ELSE feed.ledgers
                                             + (IF s1.ledger THEN 1 ELSE 0)
                                             + (IF s2.ledger THEN 1 ELSE 0)]
  /\ pc' = "run"
  /\ boot' = NoBoot
  /\ UNCHANGED <<client_ok, leverage, ev, sent_at, call, loop, book, klines, boll>>

\* Engine.run_ws: the connection ends or raises; the error is logged and
\* the loop connects again
Disconnect ==
  /\ pc \in {"ready", "run"}
  /\ pc' = AfterFeedError
  /\ boot' = NoBoot
  /\ feed' = [feed EXCEPT !.trigger = "disconnect", !.pre = state,
                          !.ticked = FALSE, !.gap = -1, !.read = -1, !.script = -1,
                          !.closes = 0, !.ledgers = 0]
  /\ UNCHANGED <<state, position, last_trade_time, now, client_ok, leverage,
                 ev, sent_at, call, loop, book, klines, boll>>

NextFeed == Construct \/ Message \/ Disconnect

SpecFeed == InitFeed /\ [][NextFeed]_vars

\* ------------------------------------------------- the consumer coroutine
\* Engine._consume step by step: the socket queues messages at any time;
\* the coroutine takes one, starts the throttled evaluation and awaits it,
\* then for a closed bar stores it, starts the evaluation and awaits it.
\* An evaluation in flight computes the band and runs the handler ("band")
\* and may then wait for an order or close call of the gateway ("order").

\* an evaluation started as a task of its own, not awaited
AwaitEvaluate_Spawn(waiting, next) == next

\* "await self.evaluate()": the coroutine stands still until it finished
AwaitEvaluate(waiting, next) == waiting

\* the sequence without its i-th element
Without(seq, i) == SubSeq(seq, 1, i - 1) \o SubSeq(seq, i + 1, Len(seq))

InitLoop ==
  /\ pc = "run"
  /\ state = STATE_WAITING
  /\ position = NoPosition
  /\ last_trade_time = 0
  /\ now = StartMs
  /\ client_ok = TRUE
  /\ leverage \in Leverages \ {0}
  /\ boot = NoBoot
  /\ ev = NoEvaluation
  /\ sent_at = [any |-> -1, open |-> -1, qual_idle |-> -1]
  /\ call = NoCall
  /\ feed = NoFeed
  /\ loop = NoLoop
  /\ book = NoBook
  /\ klines = <<>>
  /\ boll = NoBoll

\* the steps of the coroutine change nothing but its own record: what an
\* evaluation does to the engine is the subject of Evaluate and Message
LoopOnly ==
  UNCHANGED <<pc, state, position, last_trade_time, now, client_ok, leverage,
              boot, ev, sent_at, call, feed, book, klines, boll>>

\* the socket receives a message (is_closed is its field x)
Arrive ==
  /\ LoopOnly
  /\ Len(loop.queue) < MaxQueue
  /\ \E is_closed \in BOOLEAN :
       loop' = [loop EXCEPT !.queue = Append(@, is_closed)]

\* "async for msg in ws": the next message is taken and parsed
Receive ==
  /\ LoopOnly
  /\ loop.at = "recv"
  /\ loop.queue # <<>>
  /\ loop' = [loop EXCEPT !.at = "throttle", !.closed = Head(loop.queue),
                          !.queue = Tail(@)]

\* the throttle: the evaluation is started when a second has passed
Throttle ==
  /\ LoopOnly
  /\ loop.at = "throttle"
  /\ \E due \in BOOLEAN :
       loop' = IF due
                 THEN [loop EXCEPT !.at = AwaitEvaluate("await_tick", "bar"),
                                   !.evals = Append(@, "band")]
                 ELSE [loop EXCEPT !.at = "bar"]

\* "if is_closed": the bar is stored and the evaluation started
BarClose ==
  /\ LoopOnly
  /\ loop.at = "bar"
  /\ loop' = IF loop.closed
                THEN [loop EXCEPT !.at = AwaitEvaluate("await_bar", "recv"),
                                  !.evals = Append(@, "band")]
                ELSE [loop EXCEPT !.at = "recv"]

\* an evaluation in flight calls the gateway for an order or a close
OrderCall ==
  /\ LoopOnly
  /\ \E i \in 1..Len(loop.evals) :
       /\ loop.evals[i] = "band"
       /\ loop' = [loop EXCEPT !.evals[i] = "order"]

\* an evaluation in flight returns; the coroutine that awaits it goes on
EvaluateReturns ==
  /\ LoopOnly
  /\ \E i \in 1..Len(loop.evals) :
       loop' = [loop EXCEPT !.evals = Without(@, i),
                            !.at = IF @ = "await_tick" THEN "bar"
                                   ELSE IF @ = "await_bar" THEN "recv" ELSE @]

NextLoop ==
  Arrive \/ Receive \/ Throttle \/ BarClose \/ OrderCall \/ EvaluateReturns

SpecLoop == InitLoop /\ [][NextLoop]_vars

\* -------------------------------------------------------------- the store
\* The tables of db.py as the trader and the engine write them. Amounts of
\* money are integers in units of 1 / (1000 * FeeRateDen): a fee is
\* qty * price * FeeRateNum, a profit (exit - entry) * qty * FeeRateDen.

\* a set_position that inserts without deleting
set_position_NoDelete(rows, row) == Append(rows, row)

\* a close_position that leaves the rows
close_position_Keep(rows) == rows

\* db.close_position(symbol): every row of the symbol is deleted
close_position(rows) == <<>>

\* db.set_position(symbol, ...): delete the rows of the symbol, insert one
set_position(rows, row) == Append(close_position(rows), row)

\* db.get_position(symbol): the first row of the symbol, or none
get_position(rows) == IF rows = <<>> THEN NoPosition ELSE rows[1]

\* db.add_trade: one more row, whatever the rows before
add_trade(trades, t) == Append(trades, t)

\* db.get_daily_profit(date), with the defaults the engine uses for no row
get_daily_profit(daily, date) == daily[date]

\* db.update_daily_profit(date, ...): insert or update the row of the date
update_daily_profit(daily, date, row) == [daily EXCEPT ![date] = row]

\* the fee of a fill: trade_amount * config.FEE_RATE
Fee(qty, price) == qty * price * FeeRateNum

\* a profit in the units of the fees
Money(profit) == profit * FeeRateDen

\* "SELECT SUM(fee) FROM trades WHERE date(...) = ?"
RECURSIVE SumFees(_, _)
SumFees(trades, date) ==
  IF trades = <<>> THEN 0
  ELSE (IF Head(trades).date = date THEN Head(trades).fee ELSE 0)
       + SumFees(Tail(trades), date)

\* this_profit of close_and_update_profit and pnl of close_all
realized_pnl(pos, exit_price) ==
  IF pos.side = "long" THEN (exit_price - pos.entry_price) * pos.qty
  ELSE (pos.entry_price - exit_price) * pos.qty

\* a ledger that counts a close without profit as a profitable one
DailyAfterClose_ZeroIsProfit(row, this_profit, total_fees) ==
  [exists |-> TRUE,
   trade_count |-> row.trade_count + 1,
   profit |-> row.profit + Money(this_profit) - total_fees,
   profit_count |-> row.profit_count + (IF this_profit >= 0 THEN 1 ELSE 0),
   loss_count |-> row.loss_count + (IF this_profit < 0 THEN 1 ELSE 0),
   total_fees |-> total_fees]

\* Engine.close_and_update_profit, lines 580-621: the row written for the
\* date from the row read (daily), this_profit and the fees of the date;
\* the profit written is daily['profit'] + this_profit - total_fees
DailyAfterClose(row, this_profit, total_fees) ==
  [exists |-> TRUE,
   trade_count |-> row.trade_count + 1,
   profit |-> row.profit + Money(this_profit) - total_fees,
   profit_count |-> row.profit_count + (IF this_profit > 0 THEN 1 ELSE 0),
   loss_count |-> row.loss_count + (IF this_profit < 0 THEN 1 ELSE 0),
   total_fees |-> total_fees]

\* Trader.place_order on the tables: a filled order appends a Trade with
\* its fee and sets the Position
StoreAfterOpen(b, side, price, gw) ==
  LET had == get_position(b.positions)
      o == place_order(side, LedgerQty, 1, price, had, TRUE, gw)
  IN  IF o.executed
        THEN [b EXCEPT
                !.trades = add_trade(@, [date |-> b.date, closing |-> FALSE,
                                         realized |-> FALSE, pnl |-> 0,
                                         fee |-> Fee(o.position.qty,
                                                     o.position.entry_price)]),
                !.positions = set_position(@, o.position),
                !.last = [NoOp EXCEPT !.op = "open", !.had = had]]
      ELSE [b EXCEPT !.last = [NoOp EXCEPT !.op = "open", !.had = had]]

\* Engine.close_and_update_profit on the tables: close_all appends the
\* closing Trade and deletes the Position; with an exit price > 0 the row
\* of the date is then read, folded and written
StoreAfterClose(b, price, gw) ==
  LET had == get_position(b.positions)
      c == close_and_update_profit(price, had, [clientOk |-> TRUE, gw |-> gw])
      this_profit == realized_pnl(had, c.exit_price)
      trades == IF c.trade
                  THEN add_trade(b.trades,
                         [date |-> b.date, closing |-> TRUE,
                          realized |-> c.exit_price > 0, pnl |-> this_profit,
                          fee |-> Fee(had.qty, c.exit_price)])
                ELSE b.trades
      before == get_daily_profit(b.daily, b.date)
  IN  [positions |-> IF c.trade THEN close_position(b.positions)
                     ELSE b.positions,
       trades |-> trades,
       daily |-> IF c.ledger
                   THEN update_daily_profit(b.daily, b.date,
                          DailyAfterClose(before, this_profit,
                                          SumFees(trades, b.date)))
                 ELSE b.daily,
       date |-> b.date,
       last |-> [op |-> "close", realized |-> c.ledger, had |-> had,
                 exit_price |-> c.exit_price, before |-> before]]

\* Engine._sync_position_with_api on the tables
StoreAfterSync(b, api_amt) ==
  LET had == get_position(b.positions)
      s == sync_position_with_api(had, api_amt)
  IN  [b EXCEPT !.positions = IF s.stored = NoPosition
                                THEN close_position(@) ELSE @,
                !.last = [NoOp EXCEPT !.op = "sync"]]

\* the rest of the engine is not followed while the store is
StoreOnly ==
  UNCHANGED <<pc, state, position, last_trade_time, now, client_ok, leverage,
              boot, ev, sent_at, call, feed, loop, klines, boll>>

InitLedger ==
  /\ pc = "run"
  /\ state = STATE_WAITING
  /\ position = NoPosition
  /\ last_trade_time = 0
  /\ now = StartMs
  /\ client_ok = TRUE
  /\ leverage \in Leverages \ {0}
  /\ boot = NoBoot
  /\ ev = NoEvaluation
  /\ sent_at = [any |-> -1, open |-> -1, qual_idle |-> -1]
  /\ call = NoCall
  /\ feed = NoFeed
  /\ loop = NoLoop
  /\ klines = <<>>
  /\ boll = NoBoll
  /\ \E row \in StoredPositions :
       book = [NoBook EXCEPT !.positions = IF row = NoPosition THEN <<>>
                                           ELSE <<row>>]

\* an opening order of the trader, at a price that passed the engine's test
\* current_price > 0
Open ==
  /\ StoreOnly
  /\ Len(book.trades) < MaxTrades
  /\ \E side \in {"BUY", "SELL"}, price \in LedgerPrices \ {0},
        gw \in Gateways :
       book' = StoreAfterOpen(book, side, price, gw)

\* a close of the engine
Close ==
  /\ StoreOnly
  /\ Len(book.trades) < MaxTrades
  /\ \E price \in LedgerPrices, gw \in Gateways :
       book' = StoreAfterClose(book, price, gw)

\* a reconciliation with what the exchange reports
Reconcile ==
  /\ StoreOnly
  /\ \E api_amt \in PositionAmts : book' = StoreAfterSync(book, api_amt)

\* the calendar date changes
Midnight ==
  /\ StoreOnly
  /\ book.date < MaxDate
  /\ book' = [book EXCEPT !.date = @ + 1, !.last = NoOp]

NextLedger == Open \/ Close \/ Reconcile \/ Midnight

SpecLedger == InitLedger /\ [][NextLedger]_vars

\* --------------------------------------------------------------- the band
\* closes of the bars the exchange returns, and its ticker prices
BarCloses == {94, 100, 106}

\* the klines a policy fetches: one bar too few for the window, just
\* enough, and one more; the last bar is the one still open
FetchedBars == UNION { [1..n -> BarCloses] : n \in (Period - 1)..(Period + 1) }

RECURSIVE Sum(_)
Sum(xs) == IF xs = <<>> THEN 0 ELSE Head(xs) + Sum(Tail(xs))

RECURSIVE SumSq(_)
SumSq(xs) == IF xs = <<>> THEN 0 ELSE Head(xs) * Head(xs) + SumSq(Tail(xs))

\* the integer part of the square root
Isqrt(x) == CHOOSE r \in 0..x : r * r <= x /\ (r + 1) * (r + 1) > x

\* rolling(period) at the last row: the last period closes
Window(closes, period) ==
  SubSeq(closes, Len(closes) - period + 1, Len(closes))

\* a band whose upper and lower lines are exchanged
bollinger_bands_Swapped(closes, period, stds) ==
  LET w == Window(closes, period)
      total == Sum(w)
      dev == Isqrt(period * SumSq(w) - total * total)
  IN  [dn |-> total + stds * dev, mid |-> total, up |-> total - stds * dev]

\* indicators.bollinger_bands with ddof = 0, at the last row, for
\* Len(closes) >= period. The lines are in units of 1/period of a USDT:
\* period * mean is the sum of the window, and period * std is the root
\* of period * (sum of squares) - (sum)^2
bollinger_bands(closes, period, stds) ==
  LET w == Window(closes, period)
      total == Sum(w)
      dev == Isqrt(period * SumSq(w) - total * total)
  IN  [dn |-> total - stds * dev, mid |-> total, up |-> total + stds * dev]

\* what a policy gives back: a band, or an exception
Returned(band) == [raised |-> FALSE, band |-> band]

Raised == [raised |-> TRUE, band |-> NoBand]

\* df.iloc[:-1]: the bars without the last one
Complete(bars) == SubSeq(bars, 1, Len(bars) - 1)

\* indicators.calculate_boll_binance_compatible: the band of the closed bars
calculate_boll_binance_compatible(bars, period, stds) ==
  IF Len(Complete(bars)) < period THEN Raised
  ELSE Returned(bollinger_bands(Complete(bars), period, stds))

\* indicators.calculate_boll_dynamic: the ticker price is written over the
\* close of the last bar, whatever the distance between the two
calculate_boll_dynamic(bars, current_price, period, stds) ==
  IF Len(bars) < period THEN Raised
  ELSE Returned(bollinger_bands([bars EXCEPT ![Len(bars)] = current_price],
                                period, stds))

\* the last fallback of Engine.evaluate: the band of the stored rows, or
\* no band ("return") when they are fewer than the period
local_bands(rows, period, stds) ==
  IF Len(rows) < period THEN Raised
  ELSE Returned(bollinger_bands(rows, period, stds))

InitBand ==
  /\ pc = "run"
  /\ state = STATE_WAITING
  /\ position = NoPosition
  /\ last_trade_time = 0
  /\ now = StartMs
  /\ client_ok = TRUE
  /\ leverage \in Leverages \ {0}
  /\ boot = NoBoot
  /\ ev = NoEvaluation
  /\ sent_at = [any |-> -1, open |-> -1, qual_idle |-> -1]
  /\ call = NoCall
  /\ feed = NoFeed
  /\ loop = NoLoop
  /\ book = NoBook
  /\ klines = <<>>
  /\ \E bars \in FetchedBars, price \in BarCloses :
       boll = [NoBoll EXCEPT !.bars = bars, !.price = price]

BandOnly ==
  UNCHANGED <<pc, state, position, last_trade_time, now, client_ok, leverage,
              boot, ev, sent_at, call, feed, loop, book, klines>>

\* the record of the policy applied to the bars and the price
Applied(policy, r) ==
  [boll EXCEPT !.policy = policy, !.raised = r.raised, !.band = r.band]

Dynamic ==
  /\ boll.policy = "none"
  /\ boll' = Applied("dynamic",
                     calculate_boll_dynamic(boll.bars, boll.price, Period,
                                            BollStd))
  /\ BandOnly

Compatible ==
  /\ boll.policy = "none"
  /\ boll' = Applied("compatible",
                     calculate_boll_binance_compatible(boll.bars, Period,
                                                       BollStd))
  /\ BandOnly

Local ==
  /\ boll.policy = "none"
  /\ boll' = Applied("local", local_bands(boll.bars, Period, BollStd))
  /\ BandOnly

NextBand == Dynamic \/ Compatible \/ Local

SpecBand == InitBand /\ [][NextBand]_vars

\* ---------------------------------------------------------- the bar store
\* get_interval_ms of Engine.bootstrap; -1 stands for the ValueError
get_interval_ms(num, unit) ==
  IF unit = "m" THEN num * 60000
  ELSE IF unit = "h" THEN num * 3600000
  ELSE IF unit = "d" THEN num * 86400000
  ELSE -1

IntervalMs == get_interval_ms(IntervalNum, IntervalUnit)

\* the clock of the bar store advances by half a bar
HalfBar == IntervalMs \div 2

\* the exchange lists the bars from the open_time IntervalMs on; the run
\* starts when the second bar opens and ends MaxBars bars later
StartBars == 2 * IntervalMs
EndBars == (2 + MaxBars) * IntervalMs

\* futures_klines: the open_time of the bars the exchange has at time t,
\* oldest first; the last one is still open
ExchangeBars(t) == [i \in 1..(t \div IntervalMs) |-> i * IntervalMs]

\* the answer to a request with limit = n: the n latest bars
LastN(bars, n) ==
  IF Len(bars) <= n THEN bars ELSE SubSeq(bars, Len(bars) - n + 1, Len(bars))

\* close prices of the bars, and prices of the messages
BarPrices == {94, 100, 106}

\* klines as what answers the band policies: the exchange answers both
\* requests, only the second, or none; or the store fails too
Nets == {"up", "dynamic_fails", "exchange_down", "all_fail"}

\* db.latest_kline_time: MAX(open_time), -1 for None
latest_kline_time(rows) ==
  IF rows = <<>> THEN -1
  ELSE CHOOSE t \in {rows[i] : i \in 1..Len(rows)} :
         \A i \in 1..Len(rows) : rows[i] <= t

\* db.insert_kline: a plain INSERT of each row
insert_kline(rows, new) == rows \o new

\* Engine.bootstrap: the klines table after it ran at time t; an exception
\* (the unsupported interval, a failed request) is logged and nothing is
\* inserted
bootstrap(rows, t, fetch_ok) ==
  LET interval_ms == get_interval_ms(IntervalNum, IntervalUnit)
      latest == latest_kline_time(rows)
      last_time == IF latest < 0 THEN 0 ELSE latest
      initial == IF last_time = 0
                   THEN LastN(ExchangeBars(t), InitialKlines) ELSE <<>>
      filled_to == IF initial # <<>> THEN initial[Len(initial)] ELSE last_time
      missing == IF filled_to + 1 < t - interval_ms
                   THEN SelectSeq(ExchangeBars(t), LAMBDA ot : ot > filled_to)
                   ELSE <<>>
  IN  IF interval_ms < 0 \/ ~fetch_ok THEN rows
      ELSE IF last_time >= t - interval_ms THEN rows
      ELSE IF initial \o missing = <<>> THEN rows
      ELSE insert_kline(rows, initial \o missing)

\* a chain of policies that goes on without testing the number of rows
PolicyChain_NoRowTest(net, nrows) ==
  IF net = "up" THEN "dynamic"
  ELSE IF net = "dynamic_fails" THEN "compatible"
  ELSE IF net = "exchange_down" THEN "local"
  ELSE "raise"

\* the try/except chain of Engine.evaluate: the policy whose band is used,
\* "skip" for the return on fewer than period stored rows, "raise" for
\* the exception that leaves evaluate
PolicyChain(net, nrows) ==
  IF net = "up"
    THEN IF nrows < Period THEN "skip" ELSE "dynamic"
  ELSE IF net = "dynamic_fails"
    THEN IF nrows < Period THEN "skip" ELSE "compatible"
  ELSE IF nrows < Period THEN "skip"
  ELSE IF net = "exchange_down" THEN "local"
  ELSE "raise"

\* Engine.evaluate from the band on, or nothing when there is no band
evaluate_chain(outcome, st, pos, ltt, close_price, last_price, band, e) ==
  IF outcome \in {"skip", "raise"} THEN NoEffect(st, pos, ltt)
  ELSE evaluate(st, pos, ltt, close_price, last_price, band, e)

\* the gateway that executes every order at time t
Executing(t) ==
  [now |-> t, clientOk |-> client_ok, leverage |-> leverage,
   acct |-> CHOOSE a \in Accounts : a.ok /\ a.available = a.wallet,
   gw |-> CHOOSE g \in Gateways : ~g.raises /\ g.avgPrice > 0]

\* the policy of the evaluations of one message: that of the last one
\* that had a band
PolicyUsed(o1, o2) ==
  IF o2 \notin {"none", "skip", "raise"} THEN o2
  ELSE IF o1 \notin {"none", "skip", "raise"} THEN o1
  ELSE "none"

InitBars ==
  /\ pc = "run"
  /\ state = STATE_WAITING
  /\ position = NoPosition
  /\ last_trade_time = 0
  /\ now = StartBars
  /\ client_ok = TRUE
  /\ leverage \in Leverages \ {0}
  /\ boot = NoBoot
  /\ ev = NoEvaluation
  /\ sent_at = [any |-> -1, open |-> -1, qual_idle |-> -1]
  /\ call = NoCall
  /\ feed = NoFeed
  /\ loop = NoLoop
  /\ book = NoBook
  /\ klines = <<>>
  /\ boll = NoBoll

BarsFrame == UNCHANGED <<client_ok, leverage, boot, sent_at, call, loop, book>>

\* Engine.bootstrap runs; the close of the last bar it stored is that of
\* the bar still open
Bootstrap ==
  /\ pc = "run"
  /\ \E fetch_ok \in BOOLEAN, c \in BarPrices :
       \E rows \in {bootstrap(klines, now, fetch_ok)} :
         /\ klines' = rows
         /\ feed' = [feed EXCEPT !.trigger = "bootstrap", !.pre = state,
                                 !.close = IF rows = klines THEN @ ELSE c]
  /\ boll' = NoBoll
  /\ ev' = NoEvaluation
  /\ UNCHANGED <<pc, state, position, last_trade_time, now>>
  /\ BarsFrame

\* a message of the bar still open (x = false): one evaluation
TickMessage ==
  /\ pc = "run"
  /\ now + HalfBar <= EndBars
  /\ \E price \in BarPrices, net \in Nets, band \in Bands :
       \E o \in {PolicyChain(net, Len(klines))} :
         \E s \in {evaluate_chain(o, state, position, last_trade_time,
                                   feed.close, price, band,
                                   Executing(now + HalfBar))} :
           /\ state' = s.state
           /\ position' = s.position
           /\ last_trade_time' = s.last_trade_time
           /\ pc' = IF o = "raise" THEN AfterFeedError ELSE "run"
           /\ feed' = [feed EXCEPT !.last_price = price, !.trigger = "tick",
                                   !.pre = state]
           /\ boll' = [NoBoll EXCEPT !.policy = PolicyUsed(o, "none"),
                                     !.raised = (o = "raise"),
                                     !.rows = Len(klines), !.net = net]
           /\ ev' = [NoEvaluation EXCEPT !.pre = state, !.sent = s.sent,
                                         !.orders = s.orders,
                                         !.changes = s.changes]
  /\ now' = now + HalfBar
  /\ klines' = klines
  /\ BarsFrame

\* the message that closes a bar (x = true), received when the bar ends:
\* an evaluation, the insert of the bar, an evaluation; an exception of
\* the first evaluation leaves _consume before the insert
BarMessage ==
  /\ pc = "run"
  /\ now + HalfBar <= EndBars
  /\ (now + HalfBar) % IntervalMs = 0
  /\ \E price \in BarPrices, net \in Nets, band \in Bands :
       \E o1 \in {PolicyChain(net, Len(klines))} :
        \E s1 \in {evaluate_chain(o1, state, position, last_trade_time,
                                   feed.close, price, band,
                                   Executing(now + HalfBar))},
           rows \in {IF o1 = "raise" THEN klines
                     ELSE insert_kline(klines,
                            <<now + HalfBar - IntervalMs>>)} :
         \E o2 \in {IF o1 = "raise" THEN "none"
                     ELSE PolicyChain(net, Len(rows))} :
          \E s2 \in {evaluate_chain(IF o2 = "none" THEN "skip" ELSE o2,
                                     s1.state, s1.position,
                                     s1.last_trade_time, price, price, band,
                                     Executing(now + HalfBar))} :
            /\ state' = s2.state
            /\ position' = s2.position
            /\ last_trade_time' = s2.last_trade_time
            /\ klines' = rows
            /\ pc' = IF "raise" \in {o1, o2} THEN AfterFeedError ELSE "run"
            /\ feed' = [feed EXCEPT !.last_price = price,
                                    !.close = IF o1 = "raise" THEN @ ELSE price,
                                    !.trigger = "bar_close", !.pre = state]
            /\ boll' = [NoBoll EXCEPT !.policy = PolicyUsed(o1, o2),
                                      !.raised = ("raise" \in {o1, o2}),
                                      !.rows = Len(rows), !.net = net]
            /\ ev' = [NoEvaluation EXCEPT
                        !.pre = state,
                        !.sent = (s1.sent \/ s2.sent),
                        !.orders = s1.orders + s2.orders,
                        !.changes = s1.changes + s2.changes]
  /\ now' = now + HalfBar
  /\ BarsFrame

NextBars == Bootstrap \/ TickMessage \/ BarMessage

SpecBars == InitBars /\ [][NextBars]_vars

\* ------------------------------------------------------ the retried close
\* the condition of a closing branch of the state holds: a transition that
\* leaves the states of a held position is triggered
ClosingCondition(st, close_price, current_price, band) ==
  /\ st \in HoldingStates
  /\ \E a \in Outgoing(st, close_price, current_price, band.up, band.mid,
                         band.dn) : a.on /\ a.to \notin HoldingStates

\* the clock does not pass the last step followed
ClockAfter(t, dt) == IF t + dt * StepMs <= EndMs THEN t + dt * StepMs ELSE EndMs

\* the times of the clock
Times == { StartMs + k * StepMs : k \in 0..MaxTicks }

\* what an evaluation of a held position is given: state, position,
\* last_trade_time, close_price, current_price, band, time, answer of the
\* gateway, leverage
RetryInputs ==
  HoldingStates \X StoredPositions \X {StartMs} \X Prices \X Prices
    \X Bands \X Times \X Gateways \X (Leverages \ {0})

\* the handler on each of these inputs, as a table computed once
Handled ==
  [i \in RetryInputs |->
     handle_state_transitions(i[1], i[2], i[3], i[4], i[5], i[6].up, i[6].mid,
                              i[6].dn,
                              [now |-> i[7], clientOk |-> TRUE,
                               leverage |-> i[9],
                               acct |-> CHOOSE a \in Accounts : a.ok,
                               gw |-> i[8]])] @@ <<>>

\* what the evaluation r of a state with the position pos leaves in ev
EvaluationOf(st, pos, r) ==
  [NoEvaluation EXCEPT
     !.pre = st, !.kind = r.kind, !.gate = r.gate, !.sent = r.sent,
     !.trade = r.trade, !.ledger = r.ledger,
     !.close = CloseOutcome(r, pos), !.exit_price = r.exit_price,
     !.wrote = (r.position # pos), !.changes = r.changes,
     !.orders = r.orders]

\* a position is held, in a state of its side; it was opened just now, so
\* that the cooldown of the opens has not elapsed
InitRetry ==
  /\ pc = "run"
  /\ state \in HoldingStates
  /\ position \in StoredPositions \ {NoPosition}
  /\ position.side = (IF state \in {STATE_HOLDING_SHORT,
                                      STATE_SHORT_BELOW_MID_WAIT,
                                      STATE_SHORT_WAIT_PROFIT}
                        THEN "short" ELSE "long")
  /\ last_trade_time = StartMs
  /\ now = StartMs
  /\ client_ok = TRUE
  /\ leverage \in Leverages \ {0}
  /\ boot = NoBoot
  /\ ev = NoEvaluation
  /\ sent_at = [any |-> -1, open |-> -1, qual_idle |-> -1]
  /\ call = NoCall
  /\ feed = NoFeed
  /\ loop = NoLoop
  /\ book = NoBook
  /\ klines = <<>>
  /\ boll = NoBoll

RetryFrame ==
  UNCHANGED <<pc, client_ok, leverage, boot, sent_at, feed, loop, book,
              klines, boll>>

\* an evaluation in which the closing condition holds and the call
\* futures_create_order raises: call keeps the handler call that failed
RetryRefused ==
  /\ pc = "run"
  /\ \E dt \in 0..MaxDt, close_price \in Prices, last_price \in TickPrices,
        band \in Bands, gw \in {g \in Gateways : g.raises} :
       \E t \in {ClockAfter(now, dt)},
          current_price \in {IF last_price # 0 THEN last_price
                             ELSE close_price} :
         /\ ClosingCondition(state, close_price, current_price, band)
         /\ \E r \in {Handled[<<state, position, last_trade_time,
                                  close_price, current_price, band, t, gw,
                                  leverage>>]} :
              /\ now' = t
              /\ state' = r.state
              /\ position' = r.position
              /\ last_trade_time' = r.last_trade_time
              /\ ev' = EvaluationOf(state, position, r)
              /\ call' = IF CloseOutcome(r, position) = "failed"
                           THEN [pre |-> state, had |-> position,
                                 close_price |-> close_price,
                                 current_price |-> current_price,
                                 up |-> band.up, mid |-> band.mid,
                                 dn |-> band.dn, r |-> r]
                         ELSE call
  /\ RetryFrame

\* an evaluation in which the closing condition holds and the gateway
\* answers the order
RetryAnswered ==
  /\ pc = "run"
  /\ \E dt \in 0..MaxDt, close_price \in Prices, last_price \in TickPrices,
        band \in Bands, gw \in {g \in Gateways : ~g.raises} :
       \E t \in {ClockAfter(now, dt)},
          current_price \in {IF last_price # 0 THEN last_price
                             ELSE close_price} :
         /\ ClosingCondition(state, close_price, current_price, band)
         /\ \E r \in {Handled[<<state, position, last_trade_time,
                                  close_price, current_price, band, t, gw,
                                  leverage>>]} :
              /\ now' = t
              /\ state' = r.state
              /\ position' = r.position
              /\ last_trade_time' = r.last_trade_time
              /\ ev' = EvaluationOf(state, position, r)
              /\ call' = call
  /\ RetryFrame

NextRetry == RetryRefused \/ RetryAnswered

\* evaluations keep occurring while the closing condition holds, and the
\* gateway does not refuse for ever
SpecRetry ==
  InitRetry /\ [][NextRetry]_vars /\ WF_vars(RetryAnswered)

\* ---------------------------------------------------------------- claims
Constructed == pc \in {"ready", "run"}

\* the last evaluation called _place_short_order or _place_long_order
Opening == ev.kind = "open"

\* C1: after startup reconciliation and after every evaluation, a Position
\* record exists if and only if the engine state is a position-holding state
C1_PositionIffHolding ==
  Constructed => ((position.side # "none") <=> (state \in HoldingStates))

\* C2: when an opening order passed the gates but was not executed by the
\* gateway (the call raised, no client, quantity below the minimum), the
\* state is unchanged and is not HOLDING_SHORT or HOLDING_LONG
C2_FailedOpenKeepsState ==
  (Opening /\ ev.gate = "passed" /\ ev.trade = "none")
    => (state = ev.pre /\ state \in OpenWaitStates)

\* C3: an open rejected by the cooldown gate or by the solvency gate sends
\* no order, writes no Trade and no Position, and leaves the engine in the
\* same waiting state
C3_RejectedOpenChangesNothing ==
  (Opening /\ ev.gate \in {"cooldown", "solvency"})
    => /\ ~ev.sent
       /\ ev.trade = "none"
       /\ ~ev.wrote
       /\ state = ev.pre
       /\ state \in OpenWaitStates

\* an open was rejected by the cooldown gate
C3_Witness == Opening /\ ev.gate = "cooldown" /\ state = ev.pre

\* C4: when close_all returns a non-positive exit price the state after the
\* evaluation is the holding state it was before
C4_FailedCloseKeepsState ==
  ev.close = "failed" => (state = ev.pre /\ state \in HoldingStates)

\* the tick take-profit close failed and the engine still waits for it
C4_Witness == ev.close = "failed" /\ state = STATE_SHORT_WAIT_PROFIT

C6_ExactlyOneOrder == \A n \in ev.pairs : n = 1

\* C6 amended: two qualifying evaluations less than the cooldown apart send
\* at most one opening order
C6_AtMostOneOrder == \A n \in ev.pairs : n <= 1

\* the second of two qualifying evaluations was stopped by the cooldown
\* the first one's order started
C6_Witness == Opening /\ ev.gate = "cooldown" /\ 1 \in ev.pairs /\ ~ev.sent

\* C7 as stated: no opening order is sent when the available balance is
\* <= 0, the price is <= 0 or the leverage is <= 0
C7_NoOpenWhenAvailableBalanceZero ==
  (Opening /\ ev.sent) => (ev.available > 0 /\ ev.price > 0 /\ leverage > 0)

\* C7 amended: no opening order is sent when the balance query fails or
\* neither the available nor the wallet balance is > 0, the price is <= 0
\* or the leverage is <= 0
C7_NoOpenWhenInsolvent ==
  (Opening /\ ev.sent)
    => ((ev.available > 0 \/ ev.wallet > 0) /\ ev.price > 0 /\ leverage > 0)

\* an open was stopped by the solvency gate
C7_Witness ==
  /\ Opening /\ ev.gate = "solvency" /\ ~ev.sent
  /\ (ev.available <= 0 /\ ev.wallet <= 0) \/ ev.price <= 0 \/ leverage <= 0

\* C8: a Trade that closes a position is followed, in the same evaluation,
\* by the update of the daily ledger
C8_CloseTradeThenLedger == ev.trade = "close" => ev.ledger

\* C9: after construction the state is HOLDING_LONG (HOLDING_SHORT) iff the
\* local store and the gateway both report a long (short) position, and
\* WAITING in every other case
C9_RestoredState ==
  pc = "ready" =>
    /\ state = STATE_HOLDING_LONG <=> (boot.db.side = "long" /\ boot.api > 0)
    /\ state = STATE_HOLDING_SHORT <=> (boot.db.side = "short" /\ boot.api < 0)
    /\ state \in {STATE_HOLDING_LONG, STATE_HOLDING_SHORT, STATE_WAITING}

\* both sides reported a long position and the engine resumed holding it
C9_Witness ==
  pc = "ready" /\ boot.db.side = "long" /\ boot.api > 0
    /\ state = STATE_HOLDING_LONG

\* the local and the reported position are on the same side
SidesMatch ==
  \/ boot.db.side = "long" /\ boot.api > 0
  \/ boot.db.side = "short" /\ boot.api < 0

\* C10: reconciliation deletes the local record exactly when there is one
\* and the gateway reports none or the opposite side; matching sides leave
\* it unchanged; a position only the gateway reports creates no record and
\* places no order
C10_ReconciliationFrame ==
  pc = "ready" =>
    /\ (boot.db.side # "none" /\ ~SidesMatch) <=>
         (boot.db.side # "none" /\ position = NoPosition)
    /\ SidesMatch => position = boot.db
    /\ boot.db.side = "none" =>
         (position = NoPosition /\ sent_at.any = -1 /\ ev = NoEvaluation)

\* the local record was on the opposite side of the gateway's and is gone
C10_Witness ==
  pc = "ready" /\ boot.db.side = "long" /\ boot.api < 0
    /\ position = NoPosition /\ state = STATE_WAITING

\* C11: when the position query of the startup reconciliation fails (every
\* attempt of the gateway call fails) the stored Position record is not
\* deleted: the positions table is as it was before the constructor ran
C11_FailedQueryKeepsRecord ==
  (pc = "ready" /\ boot.failed) => position = boot.db

\* C12: one evaluation assigns the engine state at most once and sends at
\* most one order, open or close, to the gateway
C12_OneChangeOneOrder == ev.changes <= 1 /\ ev.orders <= 1

\* an evaluation changed the state and sent the one order of its branch
C12_Witness ==
  ev.changes = 1 /\ ev.orders = 1 /\ ev.sent /\ state # ev.pre

\* the handler was called once
Called == pc = "called"

\* the outgoing transitions of the state of the call whose condition held
Triggered ==
  { a \in Outgoing(call.pre, call.close_price, call.current_price,
                   call.up, call.mid, call.dn) : a.on }

\* the handler takes no transition other than a triggered one
HandlerFollowsTriggers ==
  (Called /\ state # call.pre) => \E a \in Triggered : a.to = state

\* C13: for every state and every (close_price, current_price, band) with
\* lower <= middle <= upper, at most one outgoing transition of the state
\* has its triggering condition true
C13_TriggersExclusive ==
  (Called /\ call.dn <= call.mid /\ call.mid <= call.up)
    => Cardinality(Triggered) <= 1

\* the close price sits on lines of the band that coincide, where the two
\* conditions of HOLDING_SHORT meet, and neither is true
C13_Witness ==
  /\ Called /\ call.pre = STATE_HOLDING_SHORT
  /\ call.mid = call.up /\ call.close_price = call.mid
  /\ Triggered = {}
  /\ state = STATE_HOLDING_SHORT

\* the last message updated a bar that is not closed and was evaluated
TickEvaluation == feed.trigger = "tick"

\* C14: an evaluation triggered by a tick (a message of a bar that is not
\* closed) fires no transition other than SHORT_WAIT_PROFIT -> WAITING and
\* LONG_WAIT_PROFIT -> WAITING
C14_TickFiresOnlyTakeProfit ==
  (TickEvaluation /\ state # feed.pre)
    => /\ feed.pre \in {STATE_SHORT_WAIT_PROFIT, STATE_LONG_WAIT_PROFIT}
       /\ state = STATE_WAITING

\* the handler placed no order and left the stored position alone
NoOrder ==
  /\ call.r.kind = "none"
  /\ call.r.orders = 0
  /\ ~call.r.sent
  /\ position = call.had

\* C15: from WAITING a call moves to BREAKOUT_UP_WAIT_FALL iff
\* close_price > upper, to BREAKDOWN_DN_WAIT_BOUNCE iff close_price < lower
\* (and not close_price > upper), and otherwise stays in WAITING; it places
\* no order
C15_WaitingRule ==
  (Called /\ call.pre = STATE_WAITING) =>
    /\ state = STATE_BREAKOUT_UP_WAIT_FALL <=> call.close_price > call.up
    /\ state = STATE_BREAKDOWN_DN_WAIT_BOUNCE <=>
         (call.close_price < call.dn /\ ~(call.close_price > call.up))
    /\ state \in { STATE_WAITING, STATE_BREAKOUT_UP_WAIT_FALL,
                   STATE_BREAKDOWN_DN_WAIT_BOUNCE }
    /\ NoOrder

\* a close on the lower band left the engine in WAITING
C15_Witness ==
  /\ Called /\ call.pre = STATE_WAITING
  /\ call.close_price = call.dn /\ call.dn < call.up
  /\ state = STATE_WAITING

\* the opening order of the call passed the gates and the gateway answered it
Accepted == call.r.kind = "open" /\ call.r.gate = "passed" /\ call.r.executed

\* the call wrote the Position of a new short (long)
ShortOpened == call.had = NoPosition /\ position.side = "short"

LongOpened == call.had = NoPosition /\ position.side = "long"

\* C16: from BREAKOUT_UP_WAIT_FALL or SHORT_STOP_LOSS_WAIT_FALL a short is
\* opened, and the state becomes HOLDING_SHORT, exactly when
\* middle <= close_price <= upper and the order is accepted; when
\* close_price < middle or close_price > upper no order is placed and the
\* state is unchanged
C16_ShortEntryRule ==
  (Called /\ call.pre \in { STATE_BREAKOUT_UP_WAIT_FALL,
                            STATE_SHORT_STOP_LOSS_WAIT_FALL }) =>
    /\ ShortOpened <=>
         (call.mid <= call.close_price /\ call.close_price <= call.up /\ Accepted)
    /\ state = STATE_HOLDING_SHORT <=>
         (call.mid <= call.close_price /\ call.close_price <= call.up /\ Accepted)
    /\ (call.close_price < call.mid \/ call.close_price > call.up)
         => (NoOrder /\ state = call.pre)

\* C17: from BREAKDOWN_DN_WAIT_BOUNCE or LONG_STOP_LOSS_WAIT_BOUNCE a long
\* is opened, and the state becomes HOLDING_LONG, exactly when
\* lower < close_price <= middle and the order is accepted; when
\* close_price > middle or close_price <= lower no order is placed and the
\* state is unchanged
C17_LongEntryRule ==
  (Called /\ call.pre \in { STATE_BREAKDOWN_DN_WAIT_BOUNCE,
                            STATE_LONG_STOP_LOSS_WAIT_BOUNCE }) =>
    /\ LongOpened <=>
         (call.dn < call.close_price /\ call.close_price <= call.mid /\ Accepted)
    /\ state = STATE_HOLDING_LONG <=>
         (call.dn < call.close_price /\ call.close_price <= call.mid /\ Accepted)
    /\ (call.close_price > call.mid \/ call.close_price <= call.dn)
         => (NoOrder /\ state = call.pre)

\* the close price of the call, compared with the lines of its band
AboveUpper == call.close_price > call.up

BelowLower == call.close_price < call.dn

AboveMiddle == call.close_price > call.mid

BelowMiddle == call.close_price < call.mid

\* the call ended with the engine in state target and no Position stored
ClosedInto(target) == state = target /\ position = NoPosition

\* the call moved to state target without an order
MovedTo(target) == state = target /\ NoOrder

\* the call left state and position as they were
Unchanged == state = call.pre /\ position = call.had

\* the call tried to close a position and close_all returned a price <= 0
CloseFailed == CloseOutcome(call.r, call.had) = "failed"

\* C18 as stated: in HOLDING_SHORT close_price > upper closes the position
\* and moves to SHORT_STOP_LOSS_WAIT_FALL, close_price < middle moves to
\* SHORT_BELOW_MID_WAIT with no order, any other close_price changes
\* nothing; HOLDING_LONG mirrors it (< lower: close and
\* LONG_STOP_LOSS_WAIT_BOUNCE; > middle: LONG_ABOVE_MID_WAIT)
C18_HoldingRule ==
  /\ (Called /\ call.pre = STATE_HOLDING_SHORT) =>
       /\ AboveUpper => ClosedInto(STATE_SHORT_STOP_LOSS_WAIT_FALL)
       /\ (~AboveUpper /\ BelowMiddle) => MovedTo(STATE_SHORT_BELOW_MID_WAIT)
       /\ (~AboveUpper /\ ~BelowMiddle) => Unchanged
  /\ (Called /\ call.pre = STATE_HOLDING_LONG) =>
       /\ BelowLower => ClosedInto(STATE_LONG_STOP_LOSS_WAIT_BOUNCE)
       /\ (~BelowLower /\ AboveMiddle) => MovedTo(STATE_LONG_ABOVE_MID_WAIT)
       /\ (~BelowLower /\ ~AboveMiddle) => Unchanged

\* C18 amended: as stated, except that a close that fails (exit price <= 0)
\* leaves the engine in the holding state
C18_HoldingRuleUnlessCloseFails ==
  /\ (Called /\ call.pre = STATE_HOLDING_SHORT) =>
       /\ AboveUpper =>
            IF CloseFailed THEN state = call.pre
            ELSE ClosedInto(STATE_SHORT_STOP_LOSS_WAIT_FALL)
       /\ (~AboveUpper /\ BelowMiddle) => MovedTo(STATE_SHORT_BELOW_MID_WAIT)
       /\ (~AboveUpper /\ ~BelowMiddle) => Unchanged
  /\ (Called /\ call.pre = STATE_HOLDING_LONG) =>
       /\ BelowLower =>
            IF CloseFailed THEN state = call.pre
            ELSE ClosedInto(STATE_LONG_STOP_LOSS_WAIT_BOUNCE)
       /\ (~BelowLower /\ AboveMiddle) => MovedTo(STATE_LONG_ABOVE_MID_WAIT)
       /\ (~BelowLower /\ ~AboveMiddle) => Unchanged

\* the stop-loss of a short was sent, the position is gone and the engine
\* waits to re-enter
C18_Witness ==
  /\ Called /\ call.pre = STATE_HOLDING_SHORT /\ call.had.side = "short"
  /\ AboveUpper /\ call.r.sent /\ ~CloseFailed
  /\ ClosedInto(STATE_SHORT_STOP_LOSS_WAIT_FALL)

\* C19 as stated: in SHORT_BELOW_MID_WAIT close_price > middle closes the
\* position and moves to SHORT_PROFIT_TAKEN, close_price < lower moves to
\* SHORT_WAIT_PROFIT without an order, otherwise nothing changes;
\* LONG_ABOVE_MID_WAIT mirrors it (> upper: LONG_WAIT_PROFIT without an
\* order; < middle: close and LONG_PROFIT_TAKEN)
C19_MidWaitRule ==
  /\ (Called /\ call.pre = STATE_SHORT_BELOW_MID_WAIT) =>
       /\ AboveMiddle => ClosedInto(STATE_SHORT_PROFIT_TAKEN)
       /\ (~AboveMiddle /\ BelowLower) => MovedTo(STATE_SHORT_WAIT_PROFIT)
       /\ (~AboveMiddle /\ ~BelowLower) => Unchanged
  /\ (Called /\ call.pre = STATE_LONG_ABOVE_MID_WAIT) =>
       /\ AboveUpper => MovedTo(STATE_LONG_WAIT_PROFIT)
       /\ (~AboveUpper /\ BelowMiddle) => ClosedInto(STATE_LONG_PROFIT_TAKEN)
       /\ (~AboveUpper /\ ~BelowMiddle) => Unchanged

\* C19 amended: as stated, except that a close that fails (exit price <= 0)
\* leaves the engine in the state it was in
C19_MidWaitRuleUnlessCloseFails ==
  /\ (Called /\ call.pre = STATE_SHORT_BELOW_MID_WAIT) =>
       /\ AboveMiddle =>
            IF CloseFailed THEN state = call.pre
            ELSE ClosedInto(STATE_SHORT_PROFIT_TAKEN)
       /\ (~AboveMiddle /\ BelowLower) => MovedTo(STATE_SHORT_WAIT_PROFIT)
       /\ (~AboveMiddle /\ ~BelowLower) => Unchanged
  /\ (Called /\ call.pre = STATE_LONG_ABOVE_MID_WAIT) =>
       /\ AboveUpper => MovedTo(STATE_LONG_WAIT_PROFIT)
       /\ (~AboveUpper /\ BelowMiddle) =>
            IF CloseFailed THEN state = call.pre
            ELSE ClosedInto(STATE_LONG_PROFIT_TAKEN)
       /\ (~AboveUpper /\ ~BelowMiddle) => Unchanged

\* the long was closed for a profit when the close fell back under the
\* middle band
C19_Witness ==
  /\ Called /\ call.pre = STATE_LONG_ABOVE_MID_WAIT /\ call.had.side = "long"
  /\ BelowMiddle /\ call.r.sent /\ ~CloseFailed
  /\ ClosedInto(STATE_LONG_PROFIT_TAKEN)

\* the price the handler compares in the *_WAIT_PROFIT states
TickAboveLower == call.current_price > call.dn

TickBelowUpper == call.current_price < call.up

\* C20 as stated: in SHORT_WAIT_PROFIT a call with current_price > lower
\* closes the position and moves to WAITING, whatever close_price is, and
\* one with current_price <= lower changes nothing; LONG_WAIT_PROFIT closes
\* and moves to WAITING on current_price < upper and is unchanged on
\* current_price >= upper
C20_TickTakeProfitRule ==
  /\ (Called /\ call.pre = STATE_SHORT_WAIT_PROFIT) =>
       /\ TickAboveLower => ClosedInto(STATE_WAITING)
       /\ ~TickAboveLower => (Unchanged /\ NoOrder)
  /\ (Called /\ call.pre = STATE_LONG_WAIT_PROFIT) =>
       /\ TickBelowUpper => ClosedInto(STATE_WAITING)
       /\ ~TickBelowUpper => (Unchanged /\ NoOrder)

\* C20 amended: as stated, except that a close that fails (exit price <= 0)
\* leaves the engine in the *_WAIT_PROFIT state
C20_TickTakeProfitUnlessCloseFails ==
  /\ (Called /\ call.pre = STATE_SHORT_WAIT_PROFIT) =>
       /\ TickAboveLower =>
            IF CloseFailed THEN state = call.pre
            ELSE ClosedInto(STATE_WAITING)
       /\ ~TickAboveLower => (Unchanged /\ NoOrder)
  /\ (Called /\ call.pre = STATE_LONG_WAIT_PROFIT) =>
       /\ TickBelowUpper =>
            IF CloseFailed THEN state = call.pre
            ELSE ClosedInto(STATE_WAITING)
       /\ ~TickBelowUpper => (Unchanged /\ NoOrder)

\* the short was closed on a tick above the lower band while the last bar
\* had closed below it
C20_Witness ==
  /\ Called /\ call.pre = STATE_SHORT_WAIT_PROFIT /\ call.had.side = "short"
  /\ TickAboveLower /\ BelowLower /\ call.r.sent /\ ~CloseFailed
  /\ ClosedInto(STATE_WAITING)

\* C21: from SHORT_PROFIT_TAKEN and from LONG_PROFIT_TAKEN a call moves to
\* WAITING for every close_price, current_price and band, and places no
\* order
C21_ProfitTakenResets ==
  (Called /\ call.pre \in {STATE_SHORT_PROFIT_TAKEN, STATE_LONG_PROFIT_TAKEN})
    => (state = STATE_WAITING /\ NoOrder /\ call.r.changes = 1)

\* the reset took place on a close above the upper band, which from
\* WAITING would have flagged a breakout
C21_Witness ==
  /\ Called /\ call.pre = STATE_SHORT_PROFIT_TAKEN
  /\ AboveUpper /\ state = STATE_WAITING

\* the messages so far are the first n messages of the scenario
Followed(n) == feed.script = n

\* C22 as stated: with the band (95, 100, 105), from WAITING without a
\* position, the bar closing at 106 leads to BREAKOUT_UP_WAIT_FALL, the bar
\* closing at 104 opens a short and leads to HOLDING_SHORT, the bar closing
\* at 94 leads to SHORT_WAIT_PROFIT, and the tick at 96 closes the position
\* and leads to WAITING with one closing Trade and one DailyLedger update.
C22_Scenario ==
  /\ Followed(1) => state = STATE_BREAKOUT_UP_WAIT_FALL
  /\ Followed(2) => (state = STATE_HOLDING_SHORT /\ position.side = "short")
  /\ Followed(3) => state = STATE_SHORT_WAIT_PROFIT
  /\ Followed(4) => /\ state = STATE_WAITING /\ position = NoPosition
                    /\ feed.closes = 1 /\ feed.ledgers = 1

\* C22 amended: the bar closing at 94 leads to SHORT_BELOW_MID_WAIT only; the
\* first evaluated tick at 96 leads to SHORT_WAIT_PROFIT, the position still
\* open, and the next evaluated tick at 96 closes it and leads to WAITING,
\* with exactly one closing Trade and one DailyLedger update in the run.
C22_ScenarioByEvaluation ==
  /\ Followed(1) => state = STATE_BREAKOUT_UP_WAIT_FALL
  /\ Followed(2) => (state = STATE_HOLDING_SHORT /\ position.side = "short")
  /\ Followed(3) => /\ state = STATE_SHORT_BELOW_MID_WAIT
                    /\ position.side = "short" /\ feed.closes = 0
  /\ Followed(4) => /\ state = STATE_SHORT_WAIT_PROFIT
                    /\ position.side = "short" /\ feed.closes = 0
  /\ Followed(5) => /\ state = STATE_WAITING /\ position = NoPosition
                    /\ feed.closes = 1 /\ feed.ledgers = 1

C22_Witness ==
  /\ Followed(5) /\ state = STATE_WAITING /\ feed.trigger = "tick"
  /\ feed.last_price = 96 /\ feed.closes = 1

\* the gateway that accepts orders: a funded account, every order filled,
\* and the cooldown over when the evaluation runs
Accepting(ltt) ==
  [now |-> ltt + trade_cooldown, clientOk |-> client_ok, leverage |-> leverage,
   acct |-> CHOOSE a \in Accounts : a.ok /\ a.available = a.wallet,
   gw |-> CHOOSE g \in Gateways : ~g.raises /\ g.avgPrice > 0]

\* there are at most n bar closes, each evaluated with a band of Bands,
\* after which the engine is in WAITING
RECURSIVE CanReset(_, _, _, _)
CanReset(st, pos, ltt, n) ==
  \/ st = STATE_WAITING
  \/ /\ n > 0
     /\ \E p \in Prices \ {0}, band \in Bands :
          \E r \in {handle_state_transitions(st, pos, ltt, p, p, band.up,
                                              band.mid, band.dn, Accepting(ltt))} :
            r.state # st /\ CanReset(r.state, r.position, r.last_trade_time, n - 1)

\* the engine can place orders: it has a client and a positive leverage
CanTrade == client_ok /\ leverage > 0

FeedError == feed'.trigger = "disconnect" /\ feed' # feed

\* C26: a feed disconnect or error leaves the loop running and the engine
\* state, the cooldown timestamp and the Position record as they are, and a
\* constructed engine is never constructed (reconciled) again.
C26_FeedErrorFrame ==
  [][ /\ FeedError => /\ pc' = "run"
                       /\ state' = state
                       /\ position' = position
                       /\ last_trade_time' = last_trade_time
      /\ Constructed => Constructed' ]_vars

C26_Witness ==
  /\ pc = "run" /\ feed.trigger = "disconnect"
  /\ state \in HoldingStates /\ position # NoPosition
  /\ last_trade_time > 0

\* C24: at most one evaluation is in flight at any time: the coroutine
\* starts no evaluation while an earlier one, its order or close call
\* included, has not returned.
C24_OneEvaluationInFlight == Len(loop.evals) <= 1

C24_Witness ==
  /\ loop.evals = <<"order">> /\ loop.at = "await_bar"
  /\ Len(loop.queue) = MaxQueue

\* the row of the current date
Today == book.daily[book.date]

\* the last operation on the store was a close with an exit price > 0
RealizedClose == book.last.op = "close" /\ book.last.realized

\* the realized PnL of the closes of a date, from the trades table
RECURSIVE SumPnl(_, _)
SumPnl(trades, date) ==
  IF trades = <<>> THEN 0
  ELSE (IF Head(trades).date = date /\ Head(trades).realized
          THEN Head(trades).pnl ELSE 0)
       + SumPnl(Tail(trades), date)

\* C27: after every realized close the net profit stored for the date is
\* the sum of the realized PnL of all closes of the date minus the sum of
\* the fees of the trades of the date.
C27_NetProfitIsGrossMinusFees ==
  RealizedClose
    => Today.profit = Money(SumPnl(book.trades, book.date))
                        - SumFees(book.trades, book.date)

\* C28: a realized close adds exactly 1 to trade_count of the date, 1 to
\* profit_count when realized_pnl > 0, 1 to loss_count when it is < 0 and
\* nothing to either when it is 0, realized_pnl being (exit - entry) * qty
\* for a long and (entry - exit) * qty for a short.
C28_CountsBySign ==
  RealizedClose =>
    \E pnl \in {IF book.last.had.side = "long"
                  THEN (book.last.exit_price - book.last.had.entry_price)
                         * book.last.had.qty
                  ELSE (book.last.had.entry_price - book.last.exit_price)
                         * book.last.had.qty} :
      /\ Today.trade_count = book.last.before.trade_count + 1
      /\ Today.profit_count
           = book.last.before.profit_count + (IF pnl > 0 THEN 1 ELSE 0)
      /\ Today.loss_count
           = book.last.before.loss_count + (IF pnl < 0 THEN 1 ELSE 0)

C28_Witness ==
  /\ RealizedClose /\ book.last.had.side = "short"
  /\ book.last.exit_price = book.last.had.entry_price
  /\ Today.trade_count = 2 /\ Today.profit_count = 1 /\ Today.loss_count = 0

\* the counts and the profit of the date
Counted(b) ==
  <<b.daily[b.date].trade_count, b.daily[b.date].profit_count,
    b.daily[b.date].loss_count, b.daily[b.date].profit>>

C30_AtMostOnePosition == Len(book.positions) <= 1

C30_Witness ==
  /\ book.last.op = "open" /\ book.last.had # NoPosition
  /\ Len(book.positions) = 1 /\ book.positions[1] # book.last.had

\* C36: BREAKOUT_UP_WAIT_FALL, SHORT_STOP_LOSS_WAIT_FALL,
\* BREAKDOWN_DN_WAIT_BOUNCE and LONG_STOP_LOSS_WAIT_BOUNCE are left only by
\* opening a position: a call that leaves one of them had its opening order
\* executed by the gateway and wrote the Position.
C36_WaitLeftOnlyByOpen ==
  (Called /\ call.pre \in OpenWaitStates /\ state # call.pre)
    => (Accepted /\ position # NoPosition)

\* the call took a closing branch while no Position record existed
ClosedWithoutPosition ==
  Called /\ CloseOutcome(call.r, call.had) = "no_position"

\* C37: a closing transition that fires while no Position record exists is
\* reported as successful: the state advances to the target of the
\* transition, no order is sent, no Trade is appended and the daily ledger
\* is not updated.
C37_CloseWithoutPositionAdvances ==
  ClosedWithoutPosition =>
    /\ state # call.pre
    /\ \E a \in Triggered : a.to = state
    /\ ~call.r.sent /\ call.r.orders = 0
    /\ call.r.trade = "none"
    /\ ~call.r.ledger
    /\ position = NoPosition

\* the stop-loss of a short fired with no Position and the engine waits for
\* the fall
C37_Witness ==
  /\ ClosedWithoutPosition
  /\ call.pre = STATE_HOLDING_SHORT
  /\ state = STATE_SHORT_STOP_LOSS_WAIT_FALL

\* C38: last_trade_time never decreases, and it changes only in an
\* evaluation in which an opening order was executed by the gateway; closes,
\* rejected opens and failed opens leave it unchanged.
C38_CooldownStampedOnlyByExecutedOpen ==
  [][ /\ last_trade_time' >= last_trade_time
      /\ last_trade_time' # last_trade_time
           => (ev'.kind = "open" /\ ev'.trade = "open") ]_vars

\* the states of a short, and of a long, that is held
ShortFamily ==
  { STATE_HOLDING_SHORT, STATE_SHORT_BELOW_MID_WAIT, STATE_SHORT_WAIT_PROFIT }

LongFamily ==
  { STATE_HOLDING_LONG, STATE_LONG_ABOVE_MID_WAIT, STATE_LONG_WAIT_PROFIT }

\* C39: whenever a local Position record exists its side matches the family
\* of the engine state: it is short in HOLDING_SHORT, SHORT_BELOW_MID_WAIT
\* and SHORT_WAIT_PROFIT, and long in HOLDING_LONG, LONG_ABOVE_MID_WAIT and
\* LONG_WAIT_PROFIT.
C39_PositionSideMatchesState ==
  (Constructed /\ position # NoPosition) =>
    /\ state \in ShortFamily => position.side = "short"
    /\ state \in LongFamily => position.side = "long"

\* a Position record exists only in the states of the two families
C39_PositionOnlyInFamilies ==
  (Constructed /\ position # NoPosition)
    => state \in ShortFamily \cup LongFamily

\* a long opened by an evaluation is held in HOLDING_LONG
C39_Witness ==
  /\ ev.trade = "open" /\ position.side = "long"
  /\ state = STATE_HOLDING_LONG

\* C34: a non-positive leverage is fatal at startup: the engine stops
\* before the first evaluation, so no evaluation ever ran under such a
\* configuration.
C34_BadLeverageNeverEvaluates == leverage <= 0 => pc # "run"

\* C31: every band a policy returns for a bar sequence of length >= period
\* satisfies lower <= middle <= upper.
C31_BandOrdered ==
  (boll.policy # "none" /\ ~boll.raised)
    => (boll.band.dn <= boll.band.mid /\ boll.band.mid <= boll.band.up)

\* the dynamic policy returned a band whose three lines differ
C31_Witness ==
  /\ boll.policy = "dynamic" /\ ~boll.raised
  /\ boll.band.dn < boll.band.mid /\ boll.band.mid < boll.band.up

\* the gap between the ticker price and the last close, as a fraction of
\* the last close, exceeds the threshold
LargeGap(price, last_close) ==
  (IF price >= last_close THEN price - last_close ELSE last_close - price)
      * PriceThresholdDen
    > PriceThresholdNum * last_close

\* C32: under the Dynamic policy, when the gap between the tick price and
\* the last close exceeds the threshold the still-open bar is dropped and
\* the band is computed on the closed bars only; otherwise the tick price
\* replaces the close of the open bar before the band is computed.
C32_DynamicDropsOpenBarOnLargeGap ==
  (boll.policy = "dynamic" /\ ~boll.raised /\ Len(boll.bars) > Period) =>
    boll.band =
      IF LargeGap(boll.price, boll.bars[Len(boll.bars)])
        THEN bollinger_bands(Complete(boll.bars), Period, BollStd)
        ELSE bollinger_bands([boll.bars EXCEPT ![Len(boll.bars)] = boll.price],
                             Period, BollStd)

\* C35: after any sequence of bootstrap runs and closed-bar feed messages
\* the bar store never holds two bars with the same
\* (symbol, interval, open_time).
C35_NoDuplicateBars ==
  \A i, j \in 1..Len(klines) : klines[i] = klines[j] => i = j

\* no evaluation of the message just handled could compute a band: the
\* stored rows were fewer than the period, or every policy failed
NoBandForMessage ==
  /\ feed.trigger \in {"tick", "bar_close"}
  /\ (boll.rows < Period \/ boll.net = "all_fail")

\* C33: when the band cannot be computed (fewer than period bars are
\* stored, or every policy of the fallback chain fails) the evaluation is
\* skipped: the engine state, the position and the cooldown timestamp are
\* what they were before the message, no order is placed, and the engine
\* goes on with the feed.
C33_NoBandSkipsEvaluation ==
  NoBandForMessage =>
    /\ state = feed.pre
    /\ ev.changes = 0
    /\ ~ev.sent /\ ev.orders = 0
    /\ pc = "run"

\* after the engine had left WAITING, every policy failed on a closed bar:
\* the exception left the evaluation and the state is kept
C33_Witness ==
  /\ feed.trigger = "bar_close"
  /\ boll.net = "all_fail" /\ boll.raised /\ boll.rows >= Period
  /\ state = feed.pre /\ state # STATE_WAITING

\* a closed bar was stored and evaluated while the rows were too few
C33_WitnessFewRows ==
  /\ feed.trigger = "bar_close"
  /\ boll.net = "up" /\ 0 < boll.rows /\ boll.rows < Period
  /\ state = feed.pre

\* a close failed in some evaluation
CloseHasFailed == call.r.kind = "close" /\ call.r.exit_price <= 0

\* C40: after a failed close the close is attempted again at every later
\* evaluation in which the closing condition holds, whatever the time since
\* the last order (there is no cooldown on closes); and when the condition
\* keeps holding, evaluations keep occurring and the gateway eventually
\* accepts, the position is eventually closed and the state has left the
\* states of a held position.
C40_FailedCloseRetriedUntilClosed ==
  /\ [][ position # NoPosition
           => (ev'.kind = "close" /\ ev'.sent /\ ev'.gate = "none") ]_vars
  /\ CloseHasFailed ~> (position = NoPosition /\ state \notin HoldingStates)

\* a close that had failed in HOLDING_SHORT was executed by a later
\* evaluation of the same state, within the cooldown of the opens
C40_Witness ==
  /\ CloseHasFailed /\ call.pre = STATE_HOLDING_SHORT
  /\ ev.pre = STATE_HOLDING_SHORT /\ ev.close = "closed"
  /\ now - last_trade_time < trade_cooldown
  /\ position = NoPosition /\ state = STATE_SHORT_STOP_LOSS_WAIT_FALL

====
